---- MODULE Spec2Model ----
(***************************************************************************)
(* Model of telegram_bot.py: the operator login flow (_pending_auth), the  *)
(* operation confirmation flow (_pending_operations) and the handlers that *)
(* drive them (_cmd_start, _cmd_status, _cmd_logout, _button_callback,     *)
(* _message_handler).                                                      *)
(*                                                                         *)
(* Strings the handlers parse are sequences of one-character strings, so   *)
(* that strip/lower/split/int/startswith are computed as Python computes   *)
(* them.  Handlers are atomic steps: the Application is built without      *)
(* concurrent_updates, so one update is handled at a time.  Replies sent   *)
(* through the chat transport are recorded in `replies` and are delivered  *)
(* (reply_text and edit_message_text return); the collaborators called by  *)
(* a handler are recorded, in call order and with the source line of the   *)
(* call, in `calls`, and return normally.  The session store and the host  *)
(* registry live in the database and outlast the process; the two flow     *)
(* maps are empty when the module is loaded.  `summary` holds the counts   *)
(* of the "Summary: x/y hosts executed" line of the last handler, if it    *)
(* sent one; `exception` tells whether the last handler raised an          *)
(* exception and whether it handled it.  `inflight` holds the handler      *)
(* invocations that are suspended at an await; it stays empty where        *)
(* handlers are atomic.                                                    *)
(***************************************************************************)
EXTENDS Integers, Sequences, FiniteSets, TLC

VARIABLES pending_auth, pending_operations, session, ssh_hosts, api_hosts,
          event, calls, replies, summary, exception, inflight

vars == <<pending_auth, pending_operations, session, ssh_hosts, api_hosts,
          event, calls, replies, summary, exception, inflight>>

(***************************************************************************)
(* Bounds                                                                  *)
(***************************************************************************)
\* identities that send updates: 1..MaxUserId
MaxUserId == 2

\* the longest rendered host list a selection is parsed against
MaxHosts == 5

\* the largest number of comma-separated tokens in a selection
MaxTokens == 2

\* the largest number of outcome entries one phase of a shutdown reports
MaxEntries == 2

\* the largest number of handler invocations suspended at the same time
MaxInflight == 2

\* longest text of the remove-command runs
MaxChars == 4

(***************************************************************************)
(* Python string primitives                                                *)
(***************************************************************************)
Digits == <<"0", "1", "2", "3", "4", "5", "6", "7", "8", "9">>

IsDigit(c) == \E i \in 1..10 : Digits[i] = c

DigitVal(c) == (CHOOSE i \in 1..10 : Digits[i] = c) - 1

IsSpace(c) == c = " "

RECURSIVE LStrip(_)
LStrip(s) ==
    IF s # <<>> /\ IsSpace(Head(s)) THEN LStrip(Tail(s)) ELSE s

RECURSIVE RStrip(_)
RStrip(s) ==
    IF s # <<>> /\ IsSpace(s[Len(s)]) THEN RStrip(SubSeq(s, 1, Len(s) - 1)) ELSE s

\* str.strip()
Strip(s) == RStrip(LStrip(s))

LowerChar(c) ==
    CASE c = "A" -> "a"
      [] c = "L" -> "l"
      [] c = "B" -> "b"
      [] c = "C" -> "c"
      [] OTHER -> c

\* str.lower()
Lower(s) == [i \in 1..Len(s) |-> LowerChar(s[i])]

\* str.startswith(p)
StartsWith(s, p) == Len(s) >= Len(p) /\ SubSeq(s, 1, Len(p)) = p

\* c in s
Contains(s, c) == \E i \in 1..Len(s) : s[i] = c

Find(s, c) ==
    IF Contains(s, c) THEN CHOOSE i \in 1..Len(s) : s[i] = c /\ \A j \in 1..(i - 1) : s[j] # c
    ELSE 0

\* str.split(c, maxsplit); maxsplit < 0 is "no limit"
RECURSIVE Split(_, _, _)
Split(s, c, maxsplit) ==
    LET i == Find(s, c)
    IN  IF i = 0 \/ maxsplit = 0 THEN <<s>>
        ELSE <<SubSeq(s, 1, i - 1)>>
             \o Split(SubSeq(s, i + 1, Len(s)), c, IF maxsplit < 0 THEN maxsplit ELSE maxsplit - 1)

\* str(n) for n >= 0
RECURSIVE Str(_)
Str(n) == IF n < 10 THEN <<Digits[n + 1]>> ELSE Str(n \div 10) \o <<Digits[(n % 10) + 1]>>

\* the digits of an int() literal: digits, single underscores only between digits
IsIntBody(s) ==
    /\ s # <<>>
    /\ IsDigit(s[1]) /\ IsDigit(s[Len(s)])
    /\ \A i \in 1..Len(s) : IsDigit(s[i]) \/ s[i] = "_"
    /\ \A i \in 1..(Len(s) - 1) : ~(s[i] = "_" /\ s[i + 1] = "_")

RECURSIVE IntBodyVal(_, _)
IntBodyVal(s, acc) ==
    IF s = <<>> THEN acc
    ELSE IF Head(s) = "_" THEN IntBodyVal(Tail(s), acc)
    ELSE IntBodyVal(Tail(s), 10 * acc + DigitVal(Head(s)))

\* int(s): [ok |-> FALSE] stands for ValueError
PyInt(s) ==
    LET t == Strip(s)
        signed == t # <<>> /\ (t[1] = "+" \/ t[1] = "-")
        body == IF signed THEN Tail(t) ELSE t
    IN  IF IsIntBody(body)
        THEN [ok |-> TRUE,
              val |-> IF signed /\ t[1] = "-" THEN 0 - IntBodyVal(body, 0) ELSE IntBodyVal(body, 0)]
        ELSE [ok |-> FALSE, val |-> 0]

\* dict helpers: a dict is a function on its key set
EmptyDict == [k \in {} |-> 0]

HasKey(d, k) == k \in DOMAIN d

Get(d, k, default) == IF HasKey(d, k) THEN d[k] ELSE default

Put(d, k, v) == [x \in (DOMAIN d) \cup {k} |-> IF x = k THEN v ELSE d[x]]

Del(d, k) == [x \in (DOMAIN d) \ {k} |-> d[x]]

(***************************************************************************)
(* Configuration and the inputs the model draws from                       *)
(***************************************************************************)
\* TELEGRAM_CHAT_ID: the configured operator identity, a string
TELEGRAM_CHAT_ID == <<"1">>

Users == 1..MaxUserId

\* the secrets the auth module is configured with
StaticToken == <<"t", "o", "k", "n">>

CurrentTotp == <<"1", "2", "3", "4", "5", "6">>

\* auth.verify_static_token_value
verify_static_token_value(text) == text = StaticToken

\* auth.verify_totp
verify_totp(text) == text = CurrentTotp

\* plugins.list_plugins()
list_plugins == {<<"v", "c">>}

\* the rows the fleet can hold
SshRow(host, user, enabled) == [host |-> host, user |-> user, enabled |-> enabled]

ApiRow(host, api_type, enabled) == [host |-> host, api_type |-> api_type, enabled |-> enabled]

HostH1 == <<"h", "1">>

HostVc == <<"v", "c", "0", "1">>

UserR == <<"r">>

TypeVc == <<"v", "c">>

\* the fleets present in the database when the bot starts
InitialFleets ==
    { [ssh |-> <<>>, api |-> <<>>],
      [ssh |-> <<SshRow(HostH1, UserR, TRUE)>>, api |-> <<ApiRow(HostVc, TypeVc, TRUE)>>] }

\* text messages an identity sends
TextToken == StaticToken

TextTotp == CurrentTotp

TextBadCode == <<"0", "0", "0", "0", "0", "0">>

TextAll == <<"A", "L", "L">>

TextOne == <<"1">>

TextRange == <<"1", "-", "2">>

TextTwoOne == <<"2", ",", " ", "1">>

TextNone == <<"7", ",", "a", "b", "c">>

TextAddSsh1 == <<"s", "s", "h", ":", "h", "1", ":", "r", ":", ":", "d">>

TextAddSshShort == <<"s", "s", "h", ":", "h", "1">>

TextAddApi == <<"a", "p", "i", ":", "v", "c", ":", "v", "c", "0", "1", ":", "k", ":", "e", ":", "d">>

TextAddApiPipe == <<"a", "p", "i", "|", " ", "v", "c", "|", "v", "c", "0", "1", "|", "k">>

TextAddApiUnknown == <<"a", "p", "i", ":", "z", "z", ":", "v", "c", "0", "1", ":", "k">>

TextAddApiShort == <<"a", "p", "i", ":", "v", "c">>

TextRemoveSsh == <<"h", "1", ":", "r">>

TextRemoveApi == <<"v", "c", "0", "1">>

TextThreeSegments == <<"a", ":", "b", ":", "c">>

TextShort == <<"h", "i", " ">>

Texts ==
    { TextToken, TextTotp, TextBadCode, TextAll, TextOne, TextRange, TextTwoOne,
      TextNone, TextAddSsh1, TextAddSshShort, TextAddApi, TextAddApiPipe,
      TextAddApiUnknown, TextAddApiShort, TextRemoveSsh, TextRemoveApi,
      TextThreeSegments, TextShort }

\* callback_data of the inline keyboard buttons
Buttons ==
    { "login", "back", "logout", "status", "list_ssh", "list_api", "add_ssh", "add_api",
      "remove_ssh", "remove_api", "shutdown", "selective_shutdown" }

(***************************************************************************)
(* The database and dms_logic collaborators, on a fleet                    *)
(* [ssh |-> rows, api |-> rows]                                            *)
(***************************************************************************)
IsEnabled(h) == h.enabled

\* database.get_all_ssh_hosts(enabled_only)
get_all_ssh_hosts(fleet, enabled_only) ==
    IF enabled_only THEN SelectSeq(fleet.ssh, IsEnabled) ELSE fleet.ssh

\* database.get_all_api_hosts(enabled_only)
get_all_api_hosts(fleet, enabled_only) ==
    IF enabled_only THEN SelectSeq(fleet.api, IsEnabled) ELSE fleet.api

\* database.add_ssh_host: False when (host, user) is already registered
add_ssh_host(fleet, host, user) ==
    IF \E i \in 1..Len(fleet.ssh) : fleet.ssh[i].host = host /\ fleet.ssh[i].user = user
    THEN [ok |-> FALSE, fleet |-> fleet]
    ELSE [ok |-> TRUE, fleet |-> [fleet EXCEPT !.ssh = Append(@, SshRow(host, user, TRUE))]]

\* database.add_api_host: False when host is already registered among the API hosts
add_api_host(fleet, host, api_type) ==
    IF \E i \in 1..Len(fleet.api) : fleet.api[i].host = host
    THEN [ok |-> FALSE, fleet |-> fleet]
    ELSE [ok |-> TRUE, fleet |-> [fleet EXCEPT !.api = Append(@, ApiRow(host, api_type, TRUE))]]

\* database.delete_ssh_host: False when not found
delete_ssh_host(fleet, host, user) ==
    LET keep(h) == ~(h.host = host /\ h.user = user)
    IN  [ok |-> \E i \in 1..Len(fleet.ssh) : ~keep(fleet.ssh[i]),
         fleet |-> [fleet EXCEPT !.ssh = SelectSeq(@, keep)]]

\* database.delete_api_host: False when not found
delete_api_host(fleet, host) ==
    LET keep(h) == h.host # host
    IN  [ok |-> \E i \in 1..Len(fleet.api) : ~keep(fleet.api[i]),
         fleet |-> [fleet EXCEPT !.api = SelectSeq(@, keep)]]

\* dms_logic.initiate_hard_poweroff()["results"] when every enabled host accepts the
\* request: one phase for the shell hosts, one for the API hosts
initiate_hard_poweroff(fleet) ==
    << [phase |-> "ssh",
        hosts |-> [i \in 1..Len(get_all_ssh_hosts(fleet, TRUE)) |-> "shutdown_initiated"]],
       [phase |-> "api",
        hosts |-> [i \in 1..Len(get_all_api_hosts(fleet, TRUE)) |-> "shutdown_initiated"]] >>

(***************************************************************************)
(* Handler state: the values a handler reads and writes, with the calls    *)
(* and replies it has made so far                                          *)
(***************************************************************************)
\* no summary line was sent
NoSummary == [sent |-> FALSE]

\* results: what the shutdown collaborator returns to this handler if it is called;
\* fault: the operation this handler executes raises an exception;
\* exception: "none", "handled" (raised and handled by the handler) or "escaped"
HandlerState(results, fault) ==
    [pa |-> pending_auth, po |-> pending_operations, sess |-> session,
     fleet |-> [ssh |-> ssh_hosts, api |-> api_hosts], calls |-> <<>>, replies |-> <<>>,
     results |-> results, summary |-> NoSummary, fault |-> fault, exception |-> "none"]

Cur == HandlerState(<<>>, FALSE)

\* one call of a collaborator: its name, the source line of the call, its arguments, its
\* result, and what the handler had done when it made the call: the identities with an
\* entry in _pending_operations and the number of replies already sent
CallRec(st, fn, line, args, ok) ==
    [fn |-> fn, line |-> line, args |-> args, ok |-> ok,
     pending |-> DOMAIN st.po, replied |-> Len(st.replies), result |-> <<>>]

Call(st, fn, line, args, ok) == [st EXCEPT !.calls = Append(@, CallRec(st, fn, line, args, ok))]

\* update.message.reply_text / query.edit_message_text, by the kind of the text sent
Reply(st, r) == [st EXCEPT !.replies = Append(@, r)]

\* str(user_id) != TELEGRAM_CHAT_ID, negated
AuthorizedAny(user_id) == TRUE

Authorized(user_id) == Str(user_id) = TELEGRAM_CHAT_ID

\* database.is_telegram_session_valid
is_telegram_session_valid(st, user_id) == st.sess[user_id]

_show_main_menu(st, authenticated) ==
    Reply(st, IF authenticated THEN "Control Panel (Authenticated)" ELSE "Authenticate to access control panel")

\* op.get("state") of the identity's pending operation, "none" without one
OpStateOf(po, user_id) == IF HasKey(po, user_id) THEN Get(po[user_id], "state", "") ELSE "none"

(***************************************************************************)
(* _message_handler: the login flow                                        *)
(***************************************************************************)
AuthTokenStepKeep(st, user_id, message_text) ==
    LET ok == verify_static_token_value(message_text)
        st1 == Call(st, "verify_static_token_value", 534, <<message_text>>, ok)
    IN  IF ok
        THEN Reply([st1 EXCEPT !.pa[user_id] = "awaiting_otp"], "Token verified")
        ELSE Reply(st1, "Invalid token")

AuthTokenStep(st, user_id, message_text) ==
    LET ok == verify_static_token_value(message_text)
        st1 == Call(st, "verify_static_token_value", 534, <<message_text>>, ok)
    IN  IF ok
        THEN Reply([st1 EXCEPT !.pa[user_id] = "awaiting_otp"], "Token verified")
        ELSE [Reply(st1, "Invalid token") EXCEPT !.pa = Del(@, user_id)]

\* as AuthOtpStep, with a rejected code ending the session as well
AuthOtpStepRevokes(st, user_id, message_text) ==
    LET ok == verify_totp(message_text)
        st1 == Call(st, "verify_totp", 559, <<message_text>>, ok)
    IN  IF ok
        THEN LET st2 == Call(st1, "add_telegram_session", 560, <<Str(user_id)>>, TRUE)
                 st3 == [st2 EXCEPT !.sess[user_id] = TRUE, !.pa = Del(@, user_id)]
             IN  _show_main_menu(Reply(st3, "Authenticated (expires in 24h)"), TRUE)
        ELSE [Reply(st1, "Invalid TOTP code") EXCEPT !.pa = Del(@, user_id),
                                                     !.sess[user_id] = FALSE]

AuthOtpStep(st, user_id, message_text) ==
    LET ok == verify_totp(message_text)
        st1 == Call(st, "verify_totp", 559, <<message_text>>, ok)
    IN  IF ok
        THEN LET st2 == Call(st1, "add_telegram_session", 560, <<Str(user_id)>>, TRUE)
                 st3 == [st2 EXCEPT !.sess[user_id] = TRUE, !.pa = Del(@, user_id)]
             IN  _show_main_menu(Reply(st3, "Authenticated (expires in 24h)"), TRUE)
        ELSE [Reply(st1, "Invalid TOTP code") EXCEPT !.pa = Del(@, user_id)]

AuthFlow(st, user_id, message_text) ==
    LET state == st.pa[user_id]
    IN  IF state = "awaiting_token" THEN AuthTokenStep(st, user_id, message_text)
        ELSE IF state = "awaiting_otp" THEN AuthOtpStep(st, user_id, message_text)
        ELSE st

(***************************************************************************)
(* _message_handler: selection parsing of a selective shutdown             *)
(***************************************************************************)
\* list(range(a, b + 1))
RangeList(a, b) == [i \in 1..(IF b >= a THEN b - a + 1 ELSE 0) |-> a + i - 1]

PartIndicesExclusive(rawpart) ==
    LET part == Strip(rawpart)
    IN  IF Contains(part, "-")
        THEN LET se == Split(part, "-", 0 - 1)
             IN  IF Len(se) = 2 /\ PyInt(Strip(se[1])).ok /\ PyInt(Strip(se[2])).ok
                 THEN RangeList(PyInt(Strip(se[1])).val - 1, PyInt(Strip(se[2])).val - 2)
                 ELSE <<>>
        ELSE IF PyInt(part).ok THEN <<PyInt(part).val - 1>> ELSE <<>>

\* the indices one comma-separated part contributes
PartIndices(rawpart) ==
    LET part == Strip(rawpart)
    IN  IF Contains(part, "-")
        THEN LET se == Split(part, "-", 0 - 1)
             IN  IF Len(se) = 2 /\ PyInt(Strip(se[1])).ok /\ PyInt(Strip(se[2])).ok
                 THEN RangeList(PyInt(Strip(se[1])).val - 1, PyInt(Strip(se[2])).val - 1)
                 ELSE <<>>
        ELSE IF PyInt(part).ok THEN <<PyInt(part).val - 1>> ELSE <<>>

RECURSIVE PartsIndices(_)
PartsIndices(parts) ==
    IF parts = <<>> THEN <<>> ELSE PartIndices(Head(parts)) \o PartsIndices(Tail(parts))

selected_indices(selection, host_list) ==
    IF selection = <<"a", "l", "l">>
    THEN RangeList(0, Len(host_list) - 1)
    ELSE PartsIndices(Split(selection, ",", 0 - 1))

RECURSIVE selected_hosts(_, _)
selected_hosts(indices, host_list) ==
    IF indices = <<>> THEN <<>>
    ELSE LET idx == Head(indices)
         IN  (IF 0 <= idx /\ idx < Len(host_list) THEN <<host_list[idx + 1]>> ELSE <<>>)
             \o selected_hosts(Tail(indices), host_list)

SelectionStepAcceptEmpty(st, user_id, message_text) ==
    LET op == st.po[user_id]
        selection == Lower(Strip(message_text))
        host_list == Get(op, "host_list", <<>>)
        chosen == selected_hosts(selected_indices(selection, host_list), host_list)
    IN  IF host_list = <<>>
        THEN [Reply(st, "No hosts available") EXCEPT !.po = Del(@, user_id)]
        ELSE Reply([st EXCEPT !.po[user_id] =
                        [operation |-> "selective_shutdown", state |-> "awaiting_otp",
                         selected_hosts |-> chosen]],
                   "Confirm Selective Shutdown")

\* as SelectionStep, with the hosts enumerated again when the selection arrives
SelectionStepFresh(st, user_id, message_text) ==
    LET selection == Lower(Strip(message_text))
        ssh == get_all_ssh_hosts(st.fleet, TRUE)
        api == get_all_api_hosts(st.fleet, TRUE)
        host_list == [i \in 1..(Len(ssh) + Len(api)) |->
                         IF i <= Len(ssh) THEN <<"s", "s", "h", ":">> \o ssh[i].host \o <<":">> \o ssh[i].user
                         ELSE <<"a", "p", "i", ":">> \o api[i - Len(ssh)].host
                                  \o <<":">> \o api[i - Len(ssh)].api_type]
        chosen == selected_hosts(selected_indices(selection, host_list), host_list)
    IN  IF host_list = <<>>
        THEN [Reply(st, "No hosts available") EXCEPT !.po = Del(@, user_id)]
        ELSE IF chosen = <<>>
        THEN Reply(st, "Invalid selection")
        ELSE Reply([st EXCEPT !.po[user_id] =
                        [operation |-> "selective_shutdown", state |-> "awaiting_otp",
                         selected_hosts |-> chosen]],
                   "Confirm Selective Shutdown")

SelectionStep(st, user_id, message_text) ==
    LET op == st.po[user_id]
        selection == Lower(Strip(message_text))
        host_list == Get(op, "host_list", <<>>)
        chosen == selected_hosts(selected_indices(selection, host_list), host_list)
    IN  IF host_list = <<>>
        THEN [Reply(st, "No hosts available") EXCEPT !.po = Del(@, user_id)]
        ELSE IF chosen = <<>>
        THEN Reply(st, "Invalid selection")
        ELSE Reply([st EXCEPT !.po[user_id] =
                        [operation |-> "selective_shutdown", state |-> "awaiting_otp",
                         selected_hosts |-> chosen]],
                   "Confirm Selective Shutdown")

(***************************************************************************)
(* _message_handler: confirmation of a pending operation by a one-time code*)
(***************************************************************************)
\* f"ssh:{h['host']}:{h['user']}"
SshHostId(h) == <<"s", "s", "h", ":">> \o h.host \o <<":">> \o h.user

\* f"api:{h['host']}:{h['api_type']}"
ApiHostId(h) == <<"a", "p", "i", ":">> \o h.host \o <<":">> \o h.api_type

\* the calls of execute_shutdown_phase the loop over selected_hosts makes
RECURSIVE SelectiveCalls(_, _)
SelectiveCalls(st, hosts) ==
    IF hosts = <<>> THEN <<>>
    ELSE LET host_id == Head(hosts)
             parts == Split(host_id, ":", 2)
             ssh == get_all_ssh_hosts(st.fleet, TRUE)
             api == get_all_api_hosts(st.fleet, TRUE)
             found ==
                 IF parts[1] = <<"s", "s", "h">>
                 THEN \E i \in 1..Len(ssh) : ssh[i].host = parts[2] /\ ssh[i].user = parts[3]
                 ELSE IF parts[1] = <<"a", "p", "i">>
                 THEN \E i \in 1..Len(api) : api[i].host = parts[2] /\ api[i].api_type = parts[3]
                 ELSE FALSE
         IN  (IF found
              THEN <<CallRec(st, "execute_shutdown_phase",
                             IF parts[1] = <<"s", "s", "h">> THEN 745 ELSE 752, <<host_id>>, TRUE)>>
              ELSE <<>>)
             \o SelectiveCalls(st, Tail(hosts))

\* status in ["shutdown_initiated", "executed"], or status == "timeout"
IsSuccessStrict(status) == status \in {"shutdown_initiated", "executed"}

IsSuccess(status) == status \in {"shutdown_initiated", "executed"} \/ status = "timeout"

\* the loop over the outcome entries of one phase; an entry is modelled by its status
RECURSIVE CountPhase(_, _)
CountPhase(hosts, acc) ==
    IF hosts = <<>> THEN acc
    ELSE CountPhase(Tail(hosts),
                    [total_hosts |-> acc.total_hosts + 1,
                     success_count |-> acc.success_count
                                          + (IF IsSuccess(Head(hosts)) THEN 1 ELSE 0)])

\* the loop over results.items(): results is the sequence of [phase, hosts] items
RECURSIVE CountResults(_, _)
CountResults(results, acc) ==
    IF results = <<>> THEN acc
    ELSE CountResults(Tail(results), CountPhase(Head(results).hosts, acc))

\* f"**Summary:** {success_count}/{total_hosts} hosts executed"
Summarise(results) ==
    LET n == CountResults(results, [total_hosts |-> 0, success_count |-> 0])
    IN  [sent |-> TRUE, success_count |-> n.success_count, total_hosts |-> n.total_hosts]

ExecuteShutdown(st) ==
    LET st1 == Reply(st, "INITIATING EMERGENCY SHUTDOWN")
        st2 == [st1 EXCEPT !.calls = Append(@,
                    [CallRec(st1, "initiate_hard_poweroff", 675, <<>>, TRUE)
                        EXCEPT !.result = st.results])]
    IN  [Reply(st2, "EMERGENCY SHUTDOWN EXECUTED") EXCEPT !.summary = Summarise(st.results)]

ExecuteSelective(st, data) ==
    LET hosts == Get(data, "selected_hosts", <<>>)
        st1 == Reply(st, "INITIATING SELECTIVE SHUTDOWN")
    IN  IF hosts = <<>>
        THEN Reply(st, "No hosts selected")
        ELSE LET cs == SelectiveCalls(st1, hosts)
                 \* results = {"ssh": [], "api": []}, extended by the result of each call
                 results == << [phase |-> "ssh",
                                hosts |-> [i \in 1..Len(SelectSeq(cs, LAMBDA c : c.line = 745))
                                              |-> "shutdown_initiated"]],
                               [phase |-> "api",
                                hosts |-> [i \in 1..Len(SelectSeq(cs, LAMBDA c : c.line = 752))
                                              |-> "shutdown_initiated"]] >>
             IN  [Reply([st1 EXCEPT !.calls = @ \o cs], "SELECTIVE SHUTDOWN EXECUTED")
                     EXCEPT !.summary = Summarise(results)]

\* next((h for h in hosts if ...), None) over get_all_*_hosts(enabled_only=False): the
\* matching rows, in registry order
SshRowsOf(fleet, host, user) ==
    LET hosts == get_all_ssh_hosts(fleet, FALSE)
    IN  SelectSeq(hosts, LAMBDA h : h.host = host /\ h.user = user)

ApiRowsOf(fleet, host) ==
    LET hosts == get_all_api_hosts(fleet, FALSE)
    IN  SelectSeq(hosts, LAMBDA h : h.host = host)

ExecuteAddSshProbeAlways(st, data) ==
    LET r == add_ssh_host(st.fleet, data["host"], data["user"])
        st1 == [Call(st, "add_ssh_host", 798, <<data["host"], data["user"]>>, r.ok)
                   EXCEPT !.fleet = r.fleet]
        found == SshRowsOf(st1.fleet, data["host"], data["user"])
        st2 == IF found # <<>> THEN Call(st1, "monitor_ssh_host", 804, <<found[1]>>, TRUE)
               ELSE st1
    IN  IF r.ok
        THEN _show_main_menu(Reply(st2, "SSH host added"), TRUE)
        ELSE Reply(st2, "Failed to add host (may already exist)")

ExecuteAddSsh(st, data) ==
    LET r == add_ssh_host(st.fleet, data["host"], data["user"])
        st1 == [Call(st, "add_ssh_host", 798, <<data["host"], data["user"]>>, r.ok)
                   EXCEPT !.fleet = r.fleet]
        found == SshRowsOf(st1.fleet, data["host"], data["user"])
        st2 == IF found # <<>> THEN Call(st1, "monitor_ssh_host", 804, <<found[1]>>, TRUE)
               ELSE st1
    IN  IF r.ok
        THEN _show_main_menu(Reply(st2, "SSH host added"), TRUE)
        ELSE Reply(st1, "Failed to add host (may already exist)")

ExecuteAddApi(st, data) ==
    LET r == add_api_host(st.fleet, data["host"], data["api_type"])
        st1 == [Call(st, "add_api_host", 814, <<data["host"], data["api_type"]>>, r.ok)
                   EXCEPT !.fleet = r.fleet]
        found == ApiRowsOf(st1.fleet, data["host"])
        st2 == IF found # <<>> THEN Call(st1, "monitor_api_host", 820, <<found[1]>>, TRUE)
               ELSE st1
    IN  IF r.ok
        THEN _show_main_menu(Reply(st2, "API host added"), TRUE)
        ELSE Reply(st1, "Failed to add host (may already exist)")

ExecuteRemoveSshIgnoreResult(st, data) ==
    LET r == delete_ssh_host(st.fleet, data["host"], data["user"])
        st1 == [Call(st, "delete_ssh_host", 830, <<data["host"], data["user"]>>, r.ok)
                   EXCEPT !.fleet = r.fleet]
    IN  _show_main_menu(Reply(st1, "SSH host removed"), TRUE)

ExecuteRemoveSsh(st, data) ==
    LET r == delete_ssh_host(st.fleet, data["host"], data["user"])
        st1 == [Call(st, "delete_ssh_host", 830, <<data["host"], data["user"]>>, r.ok)
                   EXCEPT !.fleet = r.fleet]
    IN  IF r.ok THEN _show_main_menu(Reply(st1, "SSH host removed"), TRUE)
        ELSE Reply(st1, "Host not found")

ExecuteRemoveApi(st, data) ==
    LET r == delete_api_host(st.fleet, data["host"])
        st1 == [Call(st, "delete_api_host", 839, <<data["host"]>>, r.ok)
                   EXCEPT !.fleet = r.fleet]
    IN  IF r.ok THEN _show_main_menu(Reply(st1, "API host removed"), TRUE)
        ELSE Reply(st1, "Host not found")

ExecuteThenDelete(st, user_id, op) ==
    LET operation == op["operation"]
        data == Get(op, "data", EmptyDict)
        st1 == CASE operation = "shutdown" -> ExecuteShutdown(st)
                 [] operation = "selective_shutdown" -> ExecuteSelective(st, data)
                 [] operation = "add_ssh" -> ExecuteAddSsh(st, data)
                 [] operation = "add_api" -> ExecuteAddApi(st, data)
                 [] operation = "remove_ssh" -> ExecuteRemoveSsh(st, data)
                 [] operation = "remove_api" -> ExecuteRemoveApi(st, data)
                 [] OTHER -> st
    IN  [st1 EXCEPT !.po = Del(@, user_id)]

\* except Exception as e: reply_text(Error); del _pending_operations[user_id]
\* del raises KeyError when the identity has no entry, and nothing catches it
ExceptOperation(st, user_id) ==
    LET st1 == Reply(st, "Error")
    IN  IF HasKey(st1.po, user_id)
        THEN [st1 EXCEPT !.po = Del(@, user_id), !.exception = "handled"]
        ELSE [st1 EXCEPT !.exception = "escaped"]

\* the branch of the operation, lines 668-844; a fault is raised by its first statement
OperationBranch(st, user_id, op) ==
    LET operation == op["operation"]
        data == Get(op, "data", EmptyDict)
    IN  IF st.fault THEN ExceptOperation(st, user_id) ELSE
        CASE operation = "shutdown" -> ExecuteShutdown(st)
          [] operation = "selective_shutdown" -> ExecuteSelective(st, data)
          [] operation = "add_ssh" -> ExecuteAddSsh(st, data)
          [] operation = "add_api" -> ExecuteAddApi(st, data)
          [] operation = "remove_ssh" -> ExecuteRemoveSsh(st, data)
          [] operation = "remove_api" -> ExecuteRemoveApi(st, data)
          [] OTHER -> st

\* after verify_totp accepted the code: the entry is deleted (661), then the operation runs
Execute(st, user_id, op) ==
    OperationBranch([st EXCEPT !.po = Del(@, user_id)], user_id, op)

\* the branch taken after verify_totp rejected the code
RejectCodeKeep(st, user_id) == Reply(st, "Invalid TOTP code")

RejectCode(st, user_id) == [Reply(st, "Invalid TOTP code") EXCEPT !.po = Del(@, user_id)]

ConfirmFlowUnverified(st, user_id, message_text) ==
    Execute(Call(st, "verify_totp", 658, <<message_text>>, verify_totp(message_text)),
            user_id, st.po[user_id])

ConfirmFlow(st, user_id, message_text) ==
    LET op == st.po[user_id]
        ok == verify_totp(message_text)
        st1 == Call(st, "verify_totp", 658, <<message_text>>, ok)
    IN  IF op["state"] = "awaiting_otp"
        THEN IF ok THEN Execute(st1, user_id, op) ELSE RejectCode(st1, user_id)
        ELSE st

OperationFlow(st, user_id, message_text) ==
    LET op == st.po[user_id]
    IN  IF Get(op, "operation", "") = "selective_shutdown" /\ Get(op, "state", "") = "awaiting_selection"
        THEN SelectionStep(st, user_id, message_text)
        ELSE ConfirmFlow(st, user_id, message_text)

(***************************************************************************)
(* _message_handler: the add/remove text commands                          *)
(***************************************************************************)
PrefixSsh == <<"s", "s", "h", ":">>

PrefixApi == <<"a", "p", "i", ":">>

PrefixApiPipe == <<"a", "p", "i", "|">>

AddSshCommandUntested(st, user_id, message_text, test) ==
    LET parts == Split(message_text, ":", 5)
    IN  IF Len(parts) < 3
        THEN Reply(st, "Invalid format. Need: ssh:host:user::description")
        ELSE LET host == parts[2]
                 user == parts[3]
                 description == IF Len(parts) > 4 THEN parts[5]
                                ELSE IF Len(parts) > 3 THEN parts[4] ELSE <<>>
                 st1 == Call(st, "test_ssh_connection", 871, <<host, user>>, test)
             IN  Reply([st1 EXCEPT !.po = Put(@, user_id,
                            [operation |-> "add_ssh", state |-> "awaiting_otp",
                             data |-> [host |-> host, user |-> user,
                                       description |-> description]])],
                       "Connection test successful")

\* message_text.startswith("ssh:") ; test: the result of test_ssh_connection
AddSshCommand(st, user_id, message_text, test) ==
    LET parts == Split(message_text, ":", 5)
    IN  IF Len(parts) < 3
        THEN Reply(st, "Invalid format. Need: ssh:host:user::description")
        ELSE LET host == parts[2]
                 user == parts[3]
                 description == IF Len(parts) > 4 THEN parts[5]
                                ELSE IF Len(parts) > 3 THEN parts[4] ELSE <<>>
                 st1 == Call(st, "test_ssh_connection", 871, <<host, user>>, test)
             IN  IF ~test
                 THEN Reply(st1, "Connection test failed")
                 ELSE Reply([st1 EXCEPT !.po = Put(@, user_id,
                                 [operation |-> "add_ssh", state |-> "awaiting_otp",
                                  data |-> [host |-> host, user |-> user,
                                            description |-> description]])],
                            "Connection test successful")

\* api_type in list_plugins()
KnownTypeAny(api_type) == TRUE

KnownType(api_type) == api_type \in list_plugins

\* message_text.startswith(("api:", "api|")) ; test: the result of test_api_connection
AddApiCommand(st, user_id, message_text, test) ==
    LET delimiter == IF StartsWith(message_text, PrefixApi) THEN ":" ELSE "|"
        parts == Split(message_text, delimiter, 6)
    IN  IF Len(parts) < 4
        THEN Reply(st, "Invalid format. Need: api:type:host:api_key:api_endpoint:description")
        ELSE LET api_type == Strip(parts[2])
                 host == Strip(parts[3])
                 api_key == Strip(parts[4])
                 api_endpoint == Strip(IF Len(parts) > 4 THEN parts[5] ELSE <<>>)
                 description == Strip(IF Len(parts) > 5 THEN parts[6] ELSE <<>>)
             IN  IF ~KnownType(api_type)
                 THEN Reply(st, "Unknown type")
                 ELSE LET st1 == Call(st, "test_api_connection", 922,
                                      <<host, api_type, api_key, api_endpoint>>, test)
                      IN  IF ~test
                          THEN Reply(st1, "Connection test failed")
                          ELSE Reply([st1 EXCEPT !.po = Put(@, user_id,
                                          [operation |-> "add_api", state |-> "awaiting_otp",
                                           data |-> [host |-> host, api_type |-> api_type,
                                                     api_key |-> api_key,
                                                     api_endpoint |-> api_endpoint,
                                                     description |-> description]])],
                                     "Connection test successful")

\* the remove commands: SSH if the text has a colon, API otherwise
\* as RemoveCommand, without the test of the number of segments
RemoveCommandAnySegments(st, user_id, message_text) ==
    LET prefixed == StartsWith(message_text, PrefixSsh) \/ StartsWith(message_text, PrefixApi)
        parts == Split(message_text, ":", 0 - 1)
    IN  IF Contains(message_text, ":") /\ ~prefixed
        THEN Reply([st EXCEPT !.po = Put(@, user_id,
                        [operation |-> "remove_ssh", state |-> "awaiting_otp",
                         data |-> [host |-> parts[1], user |-> parts[2]]])],
                   "Remove SSH host")
        ELSE IF ~prefixed /\ ~Contains(message_text, ":") /\ Len(message_text) > 3
        THEN Reply([st EXCEPT !.po = Put(@, user_id,
                        [operation |-> "remove_api", state |-> "awaiting_otp",
                         data |-> [host |-> message_text]])],
                   "Remove API host")
        ELSE st

RemoveCommand(st, user_id, message_text) ==
    LET prefixed == StartsWith(message_text, PrefixSsh) \/ StartsWith(message_text, PrefixApi)
        parts == Split(message_text, ":", 0 - 1)
    IN  IF Contains(message_text, ":") /\ ~prefixed /\ Len(parts) = 2
        THEN Reply([st EXCEPT !.po = Put(@, user_id,
                        [operation |-> "remove_ssh", state |-> "awaiting_otp",
                         data |-> [host |-> parts[1], user |-> parts[2]]])],
                   "Remove SSH host")
        ELSE IF ~prefixed /\ ~Contains(message_text, ":") /\ Len(message_text) > 3
        THEN Reply([st EXCEPT !.po = Put(@, user_id,
                        [operation |-> "remove_api", state |-> "awaiting_otp",
                         data |-> [host |-> message_text]])],
                   "Remove API host")
        ELSE st

TextCommand(st, user_id, message_text, test) ==
    IF StartsWith(message_text, PrefixSsh)
    THEN AddSshCommand(st, user_id, message_text, test)
    ELSE IF StartsWith(message_text, PrefixApi) \/ StartsWith(message_text, PrefixApiPipe)
    THEN AddApiCommand(st, user_id, message_text, test)
    ELSE RemoveCommand(st, user_id, message_text)

\* _message_handler as a whole; text is update.message.text
\* as MessageResult, with the pending operation looked at before the login flow
MessageResultOperationFirst(st, user_id, text, test) ==
    LET message_text == Strip(text)
    IN  IF ~Authorized(user_id) THEN st
        ELSE IF HasKey(st.po, user_id) THEN OperationFlow(st, user_id, message_text)
        ELSE IF HasKey(st.pa, user_id) THEN AuthFlow(st, user_id, message_text)
        ELSE IF ~is_telegram_session_valid(st, user_id) THEN st
        ELSE TextCommand(st, user_id, message_text, test)

MessageResult(st, user_id, text, test) ==
    LET message_text == Strip(text)
    IN  IF ~Authorized(user_id) THEN st
        ELSE IF HasKey(st.pa, user_id) THEN AuthFlow(st, user_id, message_text)
        ELSE IF HasKey(st.po, user_id) THEN OperationFlow(st, user_id, message_text)
        ELSE IF ~is_telegram_session_valid(st, user_id) THEN st
        ELSE TextCommand(st, user_id, message_text, test)

(***************************************************************************)
(* _button_callback                                                        *)
(***************************************************************************)
LoginButtonAtOtp(st, user_id) ==
    Reply([st EXCEPT !.pa = Put(@, user_id, "awaiting_otp")], "Authentication (Step 1/2)")

LoginButton(st, user_id) ==
    Reply([st EXCEPT !.pa = Put(@, user_id, "awaiting_token")], "Authentication (Step 1/2)")

LogoutButtonClears(st, user_id, authenticated) ==
    _show_main_menu(
        IF authenticated
        THEN [Call(st, "remove_telegram_session", 211, <<Str(user_id)>>, TRUE)
                 EXCEPT !.sess[user_id] = FALSE, !.po = Del(@, user_id)]
        ELSE st,
        FALSE)

LogoutButton(st, user_id, authenticated) ==
    _show_main_menu(
        IF authenticated
        THEN [Call(st, "remove_telegram_session", 211, <<Str(user_id)>>, TRUE)
                 EXCEPT !.sess[user_id] = FALSE]
        ELSE st,
        FALSE)

ShutdownButton(st, user_id) ==
    Reply([st EXCEPT !.po = Put(@, user_id, [operation |-> "shutdown", state |-> "awaiting_otp"])],
          "EMERGENCY SHUTDOWN (ALL HOSTS)")

\* as SelectiveShutdownButton, without the return when no host is enabled
SelectiveShutdownButtonAlways(st, user_id) ==
    LET ssh == get_all_ssh_hosts(st.fleet, TRUE)
        api == get_all_api_hosts(st.fleet, TRUE)
        host_list == [i \in 1..(Len(ssh) + Len(api)) |->
                         IF i <= Len(ssh) THEN SshHostId(ssh[i]) ELSE ApiHostId(api[i - Len(ssh)])]
    IN  Reply([st EXCEPT !.po = Put(@, user_id,
                   [operation |-> "selective_shutdown", state |-> "awaiting_selection",
                    host_list |-> host_list])],
              "Selective Shutdown")

SelectiveShutdownButton(st, user_id) ==
    LET ssh == get_all_ssh_hosts(st.fleet, TRUE)
        api == get_all_api_hosts(st.fleet, TRUE)
        host_list == [i \in 1..(Len(ssh) + Len(api)) |->
                         IF i <= Len(ssh) THEN SshHostId(ssh[i]) ELSE ApiHostId(api[i - Len(ssh)])]
    IN  IF ssh = <<>> /\ api = <<>>
        THEN Reply(st, "No hosts available for shutdown")
        ELSE Reply([st EXCEPT !.po = Put(@, user_id,
                        [operation |-> "selective_shutdown", state |-> "awaiting_selection",
                         host_list |-> host_list])],
                   "Selective Shutdown")

\* the buttons that only render a text
InfoButton(st, data) ==
    CASE data = "status" -> Reply(st, "System Status")
      [] data = "list_ssh" ->
            Reply(st, IF get_all_ssh_hosts(st.fleet, FALSE) = <<>> THEN "No hosts configured" ELSE "SSH Hosts")
      [] data = "list_api" ->
            Reply(st, IF get_all_api_hosts(st.fleet, FALSE) = <<>> THEN "No hosts configured" ELSE "API Hosts")
      [] data = "add_ssh" -> Reply(st, "Add SSH Host")
      [] data = "add_api" -> Reply(st, "Add API Host")
      [] data = "remove_ssh" ->
            Reply(st, IF get_all_ssh_hosts(st.fleet, FALSE) = <<>> THEN "No SSH hosts to remove" ELSE "Remove SSH Host")
      [] data = "remove_api" ->
            Reply(st, IF get_all_api_hosts(st.fleet, FALSE) = <<>> THEN "No API hosts to remove" ELSE "Remove API Host")
      [] OTHER -> st

ButtonResultNoLoginCheck(st, user_id, data) ==
    LET authenticated == is_telegram_session_valid(st, user_id)
    IN  IF ~Authorized(user_id) THEN Reply(st, "Unauthorized")
        ELSE IF data = "login" THEN LoginButton(st, user_id)
        ELSE IF data = "back" THEN _show_main_menu(st, TRUE)
        ELSE IF data = "logout" THEN LogoutButton(st, user_id, authenticated)
        ELSE IF data = "shutdown" THEN ShutdownButton(st, user_id)
        ELSE IF data = "selective_shutdown" THEN SelectiveShutdownButton(st, user_id)
        ELSE InfoButton(st, data)

ButtonResult(st, user_id, data) ==
    LET authenticated == is_telegram_session_valid(st, user_id)
    IN  IF ~Authorized(user_id) THEN Reply(st, "Unauthorized")
        ELSE IF data = "login" THEN LoginButton(st, user_id)
        ELSE IF data = "back" THEN _show_main_menu(st, TRUE)
        ELSE IF data = "logout" THEN LogoutButton(st, user_id, authenticated)
        ELSE IF ~authenticated THEN Reply(st, "Please login first")
        ELSE IF data = "shutdown" THEN ShutdownButton(st, user_id)
        ELSE IF data = "selective_shutdown" THEN SelectiveShutdownButton(st, user_id)
        ELSE InfoButton(st, data)

(***************************************************************************)
(* /start, /status, /logout                                                *)
(***************************************************************************)
StartResult(st, user_id) ==
    IF ~Authorized(user_id) THEN Reply(st, "Unauthorized")
    ELSE _show_main_menu(st, is_telegram_session_valid(st, user_id))

StatusResult(st, user_id) ==
    IF ~Authorized(user_id) THEN Reply(st, "Unauthorized")
    ELSE Reply(st, "System Status")

LogoutResult(st, user_id) ==
    IF is_telegram_session_valid(st, user_id)
    THEN Reply([Call(st, "remove_telegram_session", 170, <<Str(user_id)>>, TRUE)
                   EXCEPT !.sess[user_id] = FALSE],
               "Logged out")
    ELSE Reply(st, "Not authenticated")

(***************************************************************************)
(* The state machine                                                       *)
(***************************************************************************)
\* the update handled last: its kind, its sender, the command or callback_data, and
\* message_text (which _message_handler reads only after the identity check)
Event(type, user_id, data, message_text) ==
    [type |-> type, user |-> user_id, data |-> data, text |-> message_text]

Init ==
    /\ pending_auth = EmptyDict
    /\ pending_operations = EmptyDict
    /\ session \in [Users -> BOOLEAN]
    /\ \A u \in Users : session[u] => Str(u) = TELEGRAM_CHAT_ID
    /\ \E f \in InitialFleets : ssh_hosts = f.ssh /\ api_hosts = f.api
    /\ event = Event("init", 0, "", <<>>)
    /\ calls = <<>>
    /\ replies = <<>>
    /\ summary = NoSummary
    /\ exception = "none"
    /\ inflight = <<>>

\* the handler's result becomes the state; suspended: the invocations left suspended
CommitWith(st, ev, suspended) ==
    /\ pending_auth' = st.pa
    /\ pending_operations' = st.po
    /\ session' = st.sess
    /\ ssh_hosts' = st.fleet.ssh
    /\ api_hosts' = st.fleet.api
    /\ calls' = st.calls
    /\ replies' = st.replies
    /\ summary' = st.summary
    /\ exception' = st.exception
    /\ event' = ev
    /\ inflight' = suspended

\* a handler that runs from start to end in one step
Commit(st, ev) == CommitWith(st, ev, inflight)

CmdStart(u) == Commit(StartResult(Cur, u), Event("command", u, "start", <<>>))

CmdStatus(u) == Commit(StatusResult(Cur, u), Event("command", u, "status", <<>>))

CmdLogout(u) == Commit(LogoutResult(Cur, u), Event("command", u, "logout", <<>>))

ButtonCallback(u, data) == Commit(ButtonResult(Cur, u, data), Event("button", u, data, <<>>))

\* results: what initiate_hard_poweroff returns if this handler calls it
MessageHandlerWith(u, text, test, results) ==
    Commit(MessageResult(HandlerState(results, FALSE), u, text, test),
           Event("text", u, "", IF Authorized(u) THEN Strip(text) ELSE <<>>))

\* every enabled host answers the shutdown request normally
MessageHandler(u, text, test) ==
    MessageHandlerWith(u, text, test,
                       initiate_hard_poweroff([ssh |-> ssh_hosts, api |-> api_hosts]))

\* the 24h validity window of a session ends (expiry is enforced on read)
SessionExpires(u) ==
    /\ session[u]
    /\ Commit([Cur EXCEPT !.sess[u] = FALSE], Event("expire", u, "", <<>>))

\* another interface on the same database disables a host
HostDisabled ==
    \/ \E i \in 1..Len(ssh_hosts) :
          /\ ssh_hosts[i].enabled
          /\ Commit([Cur EXCEPT !.fleet.ssh[i].enabled = FALSE], Event("fleet", 0, "disable", <<>>))
    \/ \E i \in 1..Len(api_hosts) :
          /\ api_hosts[i].enabled
          /\ Commit([Cur EXCEPT !.fleet.api[i].enabled = FALSE], Event("fleet", 0, "disable", <<>>))

\* another interface on the same database removes a host
HostRemoved ==
    \/ \E i \in 1..Len(ssh_hosts) :
          Commit([Cur EXCEPT !.fleet.ssh = SubSeq(@, 1, i - 1) \o SubSeq(@, i + 1, Len(@))],
                 Event("fleet", 0, "remove", <<>>))
    \/ \E i \in 1..Len(api_hosts) :
          Commit([Cur EXCEPT !.fleet.api = SubSeq(@, 1, i - 1) \o SubSeq(@, i + 1, Len(@))],
                 Event("fleet", 0, "remove", <<>>))

Next ==
    \/ \E u \in Users : CmdStart(u)
    \/ \E u \in Users : CmdStatus(u)
    \/ \E u \in Users : CmdLogout(u)
    \/ \E u \in Users, data \in Buttons : ButtonCallback(u, data)
    \/ \E u \in Users, text \in Texts, test \in BOOLEAN : MessageHandler(u, text, test)
    \/ \E u \in Users : SessionExpires(u)
    \/ HostDisabled
    \/ HostRemoved

Spec == Init /\ [][Next]_vars

(***************************************************************************)
(* Selection parsing on its own: the operator has pressed selective_shutdown*)
(* over a fleet of n shell hosts and sends selections                       *)
(***************************************************************************)
Operator == CHOOSE u \in Users : Str(u) = TELEGRAM_CHAT_ID

\* a fleet of n enabled shell hosts h1 .. hn
ParseFleet(n) == [ssh |-> [i \in 1..n |-> SshRow(<<"h">> \o Str(i), UserR, TRUE)], api |-> <<>>]

\* the handler state after the authenticated operator pressed selective_shutdown
ParseStart(n) ==
    SelectiveShutdownButton(
        [pa |-> EmptyDict, po |-> EmptyDict,
         sess |-> [u \in Users |-> Str(u) = TELEGRAM_CHAT_ID],
         fleet |-> ParseFleet(n), calls |-> <<>>, replies |-> <<>>,
         results |-> <<>>, summary |-> NoSummary, fault |-> FALSE, exception |-> "none"],
        Operator)

\* the tokens a selection is made of
SelectionTokens ==
    { <<"1">>, <<"3">>, <<"5">>, <<"7">>, <<"0">>, <<" ", "2", " ">>,
      <<"1", "-", "4">>, <<"2", " ", "-", "3">>, <<"4", "-", "2">>, <<"0", "-", "2">>,
      <<"4", "-", "9">>, <<"1", "-", "2", "-", "3">>, <<"-", "2">>, <<"1", "-">>,
      <<"a", "b", "c">>, <<"a", "l", "l">>, <<"A", "l", "L">>, <<>> }

RECURSIVE JoinComma(_)
JoinComma(tokens) ==
    IF Len(tokens) = 1 THEN tokens[1]
    ELSE tokens[1] \o <<",">> \o JoinComma(Tail(tokens))

\* selections of one to MaxTokens comma-separated tokens
Selections ==
    { JoinComma(tokens) : tokens \in UNION { [1..k -> SelectionTokens] : k \in 1..MaxTokens } }

InitParse ==
    \E n \in 1..MaxHosts :
        /\ pending_auth = ParseStart(n).pa
        /\ pending_operations = ParseStart(n).po
        /\ session = ParseStart(n).sess
        /\ ssh_hosts = ParseStart(n).fleet.ssh
        /\ api_hosts = ParseStart(n).fleet.api
        /\ calls = ParseStart(n).calls
        /\ replies = ParseStart(n).replies
        /\ summary = ParseStart(n).summary
        /\ exception = ParseStart(n).exception
        /\ inflight = <<>>
        /\ event = Event("button", Operator, "selective_shutdown", <<>>)

\* the operator answers the host list just rendered with a selection
SelectionMessage(text) ==
    /\ event.type = "button"
    /\ HasKey(pending_operations, Operator)
    /\ pending_operations[Operator]["state"] = "awaiting_selection"
    /\ MessageHandler(Operator, text, TRUE)

NextParse == \E text \in Selections : SelectionMessage(text)

SpecParse == InitParse /\ [][NextParse]_vars

(***************************************************************************)
(* The shutdown summary on its own: the operator has pressed shutdown and   *)
(* confirms it; the hosts answer in every way                               *)
(***************************************************************************)
\* the statuses of an outcome entry
Statuses == {"shutdown_initiated", "executed", "timeout", "failed"}

\* the outcome entries of one phase
PhaseOutcomes == UNION { [1..k -> Statuses] : k \in 0..MaxEntries }

\* what initiate_hard_poweroff can return for a shell phase and an API phase
ShutdownResults ==
    { << [phase |-> "ssh", hosts |-> a], [phase |-> "api", hosts |-> b] >> :
          a \in PhaseOutcomes, b \in PhaseOutcomes }

\* the handler state after the authenticated operator pressed shutdown
SummaryStart ==
    ShutdownButton(
        [pa |-> EmptyDict, po |-> EmptyDict,
         sess |-> [u \in Users |-> Str(u) = TELEGRAM_CHAT_ID],
         fleet |-> [ssh |-> <<>>, api |-> <<>>], calls |-> <<>>, replies |-> <<>>,
         results |-> <<>>, summary |-> NoSummary, fault |-> FALSE, exception |-> "none"],
        Operator)

InitSummary ==
    /\ pending_auth = SummaryStart.pa
    /\ pending_operations = SummaryStart.po
    /\ session = SummaryStart.sess
    /\ ssh_hosts = SummaryStart.fleet.ssh
    /\ api_hosts = SummaryStart.fleet.api
    /\ calls = SummaryStart.calls
    /\ replies = SummaryStart.replies
    /\ summary = SummaryStart.summary
    /\ exception = SummaryStart.exception
    /\ inflight = <<>>
    /\ event = Event("button", Operator, "shutdown", <<>>)

\* the operator confirms the pending shutdown with the current code
ShutdownCode(results) ==
    /\ HasKey(pending_operations, Operator)
    /\ MessageHandlerWith(Operator, TextTotp, TRUE, results)

NextSummary == \E results \in ShutdownResults : ShutdownCode(results)

SpecSummary == InitSummary /\ [][NextSummary]_vars

(***************************************************************************)
(* Faults: as Spec, and the operation a handler executes may raise          *)
(***************************************************************************)
\* a text message whose handler reaches an operation, and the operation raises
OperationFault(u, text) ==
    LET st == MessageResult(HandlerState(<<>>, TRUE), u, text, TRUE)
    IN  /\ st.exception # "none"
        /\ Commit(st, Event("text", u, "", IF Authorized(u) THEN Strip(text) ELSE <<>>))

NextFault ==
    \/ Next
    \/ \E u \in Users, text \in Texts : OperationFault(u, text)

SpecFault == Init /\ [][NextFault]_vars

(***************************************************************************)
(* Interleaving: _message_handler as a coroutine.  An invocation runs up to *)
(* an await that is followed by an access to a flow map, is suspended       *)
(* there, and is resumed later; other handlers run in between.  The awaits  *)
(* that are followed by replies only do not split an invocation, and        *)
(* _button_callback awaits query.answer() before it reads anything, so it   *)
(* runs in one step when it is resumed.                                     *)
(***************************************************************************)
\* a suspended invocation: what it does when resumed (kind), the entry it read (seen),
\* the operation or entry it carries in its locals (op), the reply it sends afterwards
Suspended(user_id, kind, seen, op, reply) ==
    [user |-> user_id, kind |-> kind, seen |-> seen, op |-> op, reply |-> reply]

\* the handler ended / the handler is suspended with continuation k
Done(st) == [st |-> st, k |-> <<>>]

Suspend(st, k) == [st |-> st, k |-> <<k>>]

\* login flow up to the await before `del _pending_auth[user_id]` (545-546, 572-573); an
\* accepted secret or code writes the map before the first await
AuthFirst(st, user_id, message_text) ==
    LET state == st.pa[user_id]
        ok == IF state = "awaiting_token" THEN verify_static_token_value(message_text)
              ELSE verify_totp(message_text)
    IN  IF state \notin {"awaiting_token", "awaiting_otp"} \/ ok
        THEN Done(AuthFlow(st, user_id, message_text))
        ELSE Suspend([AuthFlow(st, user_id, message_text) EXCEPT !.pa = st.pa],
                     Suspended(user_id, "del_auth", state, <<>>, ""))

\* as ConfirmFirst, with the accepted entry left in the map across the await of line 664
ConfirmFirstLate(st, user_id, message_text) ==
    LET op == st.po[user_id]
        ok == verify_totp(message_text)
        st1 == Call(st, "verify_totp", 658, <<message_text>>, ok)
    IN  IF op["state"] # "awaiting_otp" THEN Done(st)
        ELSE IF ok
        THEN Suspend(st1, Suspended(user_id, "execute", op, op, ""))
        ELSE Suspend(Reply(st1, "Invalid TOTP code"),
                     Suspended(user_id, "del_op", op, <<>>, ""))

\* confirmation up to the await of line 664 (accepted: the entry is deleted at 661, before
\* it) or of line 846 (rejected: the entry is deleted at 847, after it)
ConfirmFirst(st, user_id, message_text) ==
    LET op == st.po[user_id]
        ok == verify_totp(message_text)
        st1 == Call(st, "verify_totp", 658, <<message_text>>, ok)
    IN  IF op["state"] # "awaiting_otp" THEN Done(st)
        ELSE IF ok
        THEN Suspend([st1 EXCEPT !.po = Del(@, user_id)],
                     Suspended(user_id, "execute", op, op, ""))
        ELSE Suspend(Reply(st1, "Invalid TOTP code"),
                     Suspended(user_id, "del_op", op, <<>>, ""))

\* selection up to the await of line 628, before the entry is replaced at 642
SelectionFirst(st, user_id, message_text) ==
    LET full == SelectionStep(st, user_id, message_text)
    IN  IF OpStateOf(full.po, user_id) = "awaiting_otp"
        THEN Suspend(st, Suspended(user_id, "store", st.po[user_id], full.po[user_id],
                                   "Confirm Selective Shutdown"))
        ELSE Done(full)

\* add/remove commands up to the await of update.message.delete() before the entry is
\* stored (877, 928, 952, 968); the connection test is made before it
CommandFirst(st, user_id, message_text, test) ==
    LET full == TextCommand(st, user_id, message_text, test)
    IN  IF HasKey(full.po, user_id)
        THEN Suspend([full EXCEPT !.po = st.po, !.replies = st.replies],
                     Suspended(user_id, "store", <<>>, full.po[user_id],
                               full.replies[Len(full.replies)]))
        ELSE Done(full)

\* _message_handler from its start to its first suspension
MessageFirst(st, user_id, text, test) ==
    LET message_text == Strip(text)
    IN  IF ~Authorized(user_id) THEN Done(st)
        ELSE IF HasKey(st.pa, user_id) THEN AuthFirst(st, user_id, message_text)
        ELSE IF HasKey(st.po, user_id)
        THEN IF OpStateOf(st.po, user_id) = "awaiting_selection"
             THEN SelectionFirst(st, user_id, message_text)
             ELSE ConfirmFirst(st, user_id, message_text)
        ELSE IF ~is_telegram_session_valid(st, user_id) THEN Done(st)
        ELSE CommandFirst(st, user_id, message_text, test)

\* `del d[user_id]` inside the try (546, 573, 847): KeyError is caught by the except
\* clause, which awaits the error reply before its own del (550-551, 577-578, 850-851)
DelInTry(st, k, has, deleted) ==
    IF has THEN Done(deleted)
    ELSE Suspend(Reply(st, "Error"),
                 Suspended(k.user, IF k.kind = "del_auth" THEN "except_auth" ELSE "except_op",
                           k.seen, <<>>, ""))

\* `del d[user_id]` inside the except clause: KeyError leaves the handler
DelInExcept(st, has, deleted) ==
    IF has THEN Done([deleted EXCEPT !.exception = "handled"])
    ELSE Done([st EXCEPT !.exception = "escaped"])

\* a suspended invocation runs on, to its end or to its next suspension
Resume(st, k) ==
    CASE k.kind = "del_auth" ->
             DelInTry(st, k, HasKey(st.pa, k.user), [st EXCEPT !.pa = Del(@, k.user)])
      [] k.kind = "del_op" ->
             DelInTry(st, k, HasKey(st.po, k.user), [st EXCEPT !.po = Del(@, k.user)])
      [] k.kind = "except_auth" ->
             DelInExcept(st, HasKey(st.pa, k.user), [st EXCEPT !.pa = Del(@, k.user)])
      [] k.kind = "except_op" ->
             DelInExcept(st, HasKey(st.po, k.user), [st EXCEPT !.po = Del(@, k.user)])
      [] k.kind = "execute" ->
             Done(OperationBranch(st, k.user, k.op))
      [] k.kind = "store" ->
             Done(Reply([st EXCEPT !.po = Put(@, k.user, k.op)], k.reply))

\* texts and buttons of the interleaved runs
InterleavedTexts == { TextToken, TextTotp, TextOne }

InterleavedButtons == { "login", "shutdown", "selective_shutdown" }

\* a text message arrives and its handler runs to its first suspension
MessageBegins(u, text, test) ==
    LET r == MessageFirst(HandlerState(initiate_hard_poweroff([ssh |-> ssh_hosts,
                                                               api |-> api_hosts]), FALSE),
                          u, text, test)
    IN  /\ Len(inflight) + Len(r.k) <= MaxInflight
        /\ CommitWith(r.st, Event("text", u, "", IF Authorized(u) THEN Strip(text) ELSE <<>>),
                      inflight \o r.k)

\* the i-th suspended invocation is resumed
HandlerResumes(i) ==
    LET k == inflight[i]
        r == Resume(HandlerState(initiate_hard_poweroff([ssh |-> ssh_hosts,
                                                         api |-> api_hosts]), FALSE), k)
    IN  CommitWith(r.st, Event("resume", k.user, k.kind, <<>>),
                   SubSeq(inflight, 1, i - 1) \o SubSeq(inflight, i + 1, Len(inflight)) \o r.k)

NextInterleaved ==
    \/ \E text \in InterleavedTexts : MessageBegins(Operator, text, TRUE)
    \/ \E i \in 1..Len(inflight) : HandlerResumes(i)
    \/ \E data \in InterleavedButtons : ButtonCallback(Operator, data)

SpecInterleaved == Init /\ [][NextInterleaved]_vars

(***************************************************************************)
(* Notifications: the functions the other modules of the program call,      *)
(* while the operator's flows are in progress                               *)
(***************************************************************************)
\* _send_message without its try/except: a failed delivery leaves the function
_send_message_uncaught(st, message, critical, enabled, bot, delivered) ==
    IF ~enabled \/ ~bot THEN st
    ELSE LET st1 == Call(st, "send_message", 62,
                         <<IF critical THEN "CRITICAL" ELSE "INFO", message>>, delivered)
         IN  IF delivered THEN st1 ELSE [st1 EXCEPT !.exception = "escaped"]

\* enabled, bot: _telegram_enabled and _bot is set; delivered: send_message did not raise
_send_message(st, message, critical, enabled, bot, delivered) ==
    IF ~enabled \/ ~bot THEN st
    ELSE LET st1 == Call(st, "send_message", 62,
                         <<IF critical THEN "CRITICAL" ELSE "INFO", message>>, delivered)
         IN  IF delivered THEN st1 ELSE Call(st1, "logger.error", 75, <<>>, TRUE)

notify_new_ip(st, enabled, bot, delivered) ==
    _send_message(st, "New IP detected", TRUE, enabled, bot, delivered)

notify_shutdown(st, enabled, bot, delivered) ==
    _send_message(st, "Shutdown sequence initiated", TRUE, enabled, bot, delivered)

notify_host_added(st, enabled, bot, delivered) ==
    _send_message(st, "Host added", FALSE, enabled, bot, delivered)

notify_host_removed(st, enabled, bot, delivered) ==
    _send_message(st, "Host removed", FALSE, enabled, bot, delivered)

Notifications == { "new_ip", "shutdown", "host_added", "host_removed" }

\* the event of a notification records the circumstances of the call
NotifyEvent(kind, enabled, bot, delivered) ==
    Event("notify", 0, kind, << IF enabled /\ bot THEN "configured" ELSE "unconfigured",
                                IF delivered THEN "delivered" ELSE "failed" >>)

\* another module calls a notification function
Notify(kind, enabled, bot, delivered) ==
    LET st == CASE kind = "new_ip" -> notify_new_ip(Cur, enabled, bot, delivered)
                [] kind = "shutdown" -> notify_shutdown(Cur, enabled, bot, delivered)
                [] kind = "host_added" -> notify_host_added(Cur, enabled, bot, delivered)
                [] kind = "host_removed" -> notify_host_removed(Cur, enabled, bot, delivered)
    IN  Commit(st, NotifyEvent(kind, enabled, bot, delivered))

NextNotify ==
    \/ \E kind \in Notifications, enabled, bot, delivered \in BOOLEAN :
          Notify(kind, enabled, bot, delivered)
    \/ \E data \in InterleavedButtons : ButtonCallback(Operator, data)
    \/ \E text \in InterleavedTexts : MessageHandler(Operator, text, TRUE)
    \/ SessionExpires(Operator)

SpecNotify == Init /\ [][NextNotify]_vars

(***************************************************************************)
(* Registry changes: the selective-shutdown flow while another interface    *)
(* on the same database adds, removes, disables and reorders hosts          *)
(***************************************************************************)
HostH2 == <<"h", "2">>

HostH9 == <<"h", "9">>

HostVc2 == <<"v", "c", "0", "2">>

RegistryFleets ==
    { [ssh |-> <<SshRow(HostH1, UserR, TRUE), SshRow(HostH2, UserR, e)>>,
       api |-> <<ApiRow(HostVc, TypeVc, TRUE), ApiRow(HostVc2, TypeVc, TRUE)>>] : e \in BOOLEAN }

InitRegistry ==
    /\ pending_auth = EmptyDict
    /\ pending_operations = EmptyDict
    /\ session = [u \in Users |-> Str(u) = TELEGRAM_CHAT_ID]
    /\ \E f \in RegistryFleets : ssh_hosts = f.ssh /\ api_hosts = f.api
    /\ event = Event("init", 0, "", <<>>)
    /\ calls = <<>>
    /\ replies = <<>>
    /\ summary = NoSummary
    /\ exception = "none"
    /\ inflight = <<>>

\* another interface registers a shell host
HostGained ==
    /\ Len(ssh_hosts) < MaxHosts
    /\ \A i \in 1..Len(ssh_hosts) : ssh_hosts[i].host # HostH9
    /\ Commit([Cur EXCEPT !.fleet.ssh = Append(@, SshRow(HostH9, UserR, TRUE))],
              Event("fleet", 0, "add", <<>>))

\* the registry returns its rows in another order
HostsReordered ==
    /\ Len(ssh_hosts) >= 2
    /\ Commit([Cur EXCEPT !.fleet.ssh = <<@[2], @[1]>> \o SubSeq(@, 3, Len(@))],
              Event("fleet", 0, "reorder", <<>>))

RegistrySelections == { TextOne, TextRange, TextTwoOne, TextAll, TextNone, <<"3">>, <<"2", "-", "4">> }

NextRegistry ==
    \/ ButtonCallback(Operator, "selective_shutdown")
    \/ \E text \in RegistrySelections : MessageHandler(Operator, text, TRUE)
    \/ HostDisabled
    \/ HostRemoved
    \/ HostGained
    \/ HostsReordered

SpecRegistry == InitRegistry /\ [][NextRegistry]_vars

(***************************************************************************)
(* Remove commands: the authenticated operator, with no flow in progress,   *)
(* sends a text                                                             *)
(***************************************************************************)
\* every text of at most MaxChars characters over a letter, a digit, the colon and the
\* blank, and the texts of the other runs
RemoveTexts ==
    Texts \cup UNION { [1..n -> {"h", "1", ":", " "}] : n \in 0..MaxChars }

InitRemove ==
    /\ pending_auth = EmptyDict
    /\ pending_operations = EmptyDict
    /\ session = [u \in Users |-> Str(u) = TELEGRAM_CHAT_ID]
    /\ \E f \in InitialFleets : ssh_hosts = f.ssh /\ api_hosts = f.api
    /\ event = Event("init", 0, "", <<>>)
    /\ calls = <<>>
    /\ replies = <<>>
    /\ summary = NoSummary
    /\ exception = "none"
    /\ inflight = <<>>

NextRemove ==
    \E text \in RemoveTexts, test \in BOOLEAN :
        /\ ~HasKey(pending_auth, Operator) /\ ~HasKey(pending_operations, Operator)
        /\ MessageHandler(Operator, text, test)

SpecRemove == InitRemove /\ [][NextRemove]_vars

(***************************************************************************)
(* Vocabulary of the properties                                            *)
(***************************************************************************)
\* the collaborator calls that execute an operation, and the operation each belongs to
ExecFns ==
    { "initiate_hard_poweroff", "execute_shutdown_phase", "add_ssh_host", "add_api_host",
      "delete_ssh_host", "delete_api_host" }

OperationOf(fn) ==
    CASE fn = "initiate_hard_poweroff" -> "shutdown"
      [] fn = "execute_shutdown_phase" -> "selective_shutdown"
      [] fn = "add_ssh_host" -> "add_ssh"
      [] fn = "add_api_host" -> "add_api"
      [] fn = "delete_ssh_host" -> "remove_ssh"
      [] fn = "delete_api_host" -> "remove_api"

Called(cs, fn) == \E i \in 1..Len(cs) : cs[i].fn = fn

CalledAt(cs, fn, line, ok) ==
    \E i \in 1..Len(cs) : cs[i].fn = fn /\ cs[i].line = line /\ cs[i].ok = ok

Executed(cs) == \E fn \in ExecFns : Called(cs, fn)

IsOperator(u) == Str(u) = TELEGRAM_CHAT_ID

AuthState(pa, u) == IF HasKey(pa, u) THEN pa[u] ELSE "none"

OpState(po, u) == IF HasKey(po, u) THEN po[u]["state"] ELSE "none"

\* C1: an operation is executed only by a text message that verify_totp accepted while
\* the sender had a pending operation of that very kind in state awaiting_otp
C1_ExecutionOnlyByConfirmedCode ==
    [][\A fn \in ExecFns :
          Called(calls', fn) =>
              /\ event'.type = "text"
              /\ CalledAt(calls', "verify_totp", 658, TRUE)
              /\ verify_totp(event'.text)
              /\ OpState(pending_operations, event'.user) = "awaiting_otp"
              /\ pending_operations[event'.user]["operation"] = OperationOf(fn)]_vars

C1_Witness ==
    /\ event.type = "text"
    /\ Called(calls, "initiate_hard_poweroff")

\* C2 (as claimed): whenever an operation is executed, its identity holds a valid session
C2_SessionValidAtExecution ==
    Executed(calls) => session[event.user]

\* C3: a session is created only by an accepted code in login state awaiting_otp, that
\* state is entered only from awaiting_token by an accepted secret, and the login button
\* always resets the flow to awaiting_token
C3_SecretThenCode ==
    [][\A u \in Users :
          /\ (((event'.user = u /\ Called(calls', "add_telegram_session")) \/ (session'[u] /\ ~session[u]))
                => (/\ event'.type = "text" /\ event'.user = u
                    /\ AuthState(pending_auth, u) = "awaiting_otp"
                    /\ verify_totp(event'.text)))
          /\ ((AuthState(pending_auth', u) = "awaiting_otp" /\ AuthState(pending_auth, u) # "awaiting_otp")
                => (/\ event'.type = "text" /\ event'.user = u
                    /\ AuthState(pending_auth, u) = "awaiting_token"
                    /\ verify_static_token_value(event'.text)))
          /\ ((event'.type = "button" /\ event'.data = "login" /\ event'.user = u /\ IsOperator(u))
                => AuthState(pending_auth', u) = "awaiting_token")]_vars

C3_Witness ==
    /\ event.type = "text"
    /\ Called(calls, "add_telegram_session")
    /\ session[event.user]

\* C4: an identity other than the operator never gets a login-flow entry, a pending
\* operation or a session
C4_NoStateForOthers ==
    \A u \in Users :
        ~IsOperator(u) =>
            /\ ~HasKey(pending_auth, u)
            /\ ~HasKey(pending_operations, u)
            /\ ~session[u]
            /\ ~(event.user = u /\ Called(calls, "add_telegram_session"))

C4_Witness ==
    /\ ~IsOperator(event.user)
    /\ event.type = "button"
    /\ event.data = "login"

\* C5 (as claimed): every entry point answers an identity other than the operator with
\* the Unauthorized rejection
C5_UnauthorizedEverywhere ==
    (event.type \in {"command", "button", "text"} /\ ~IsOperator(event.user))
        => replies = <<"Unauthorized">>

\* C6: in the login flow a rejected secret or code removes the flow entry and creates no
\* session, and without a flow entry a text message is not verified as a login credential
C6_LoginFailureDiscards ==
    [][\A u \in Users :
          (event'.type = "text" /\ event'.user = u) =>
              /\ ((CalledAt(calls', "verify_static_token_value", 534, FALSE)
                      \/ CalledAt(calls', "verify_totp", 559, FALSE))
                     => (/\ HasKey(pending_auth, u)
                         /\ ~HasKey(pending_auth', u)
                         /\ ~Called(calls', "add_telegram_session")
                         /\ session' = session))
              /\ ((/\ HasKey(pending_auth, u)
                   /\ ~(IF pending_auth[u] = "awaiting_token"
                        THEN verify_static_token_value(event'.text)
                        ELSE verify_totp(event'.text)))
                     => (~HasKey(pending_auth', u) /\ session' = session))
              /\ (~HasKey(pending_auth, u)
                     => (/\ ~HasKey(pending_auth', u)
                         /\ ~Called(calls', "verify_static_token_value")
                         /\ ~CalledAt(calls', "verify_totp", 559, TRUE)
                         /\ ~CalledAt(calls', "verify_totp", 559, FALSE)
                         /\ ~Called(calls', "add_telegram_session")))]_vars

C6_Witness ==
    /\ event.type = "text"
    /\ CalledAt(calls, "verify_static_token_value", 534, FALSE)
    /\ ~HasKey(pending_auth, event.user)

StillEnabled(fleet, hosts) ==
    LET ssh == get_all_ssh_hosts(fleet, TRUE)
        api == get_all_api_hosts(fleet, TRUE)
    IN  { hosts[k] : k \in { j \in 1..Len(hosts) :
              \/ \E i \in 1..Len(ssh) : SshHostId(ssh[i]) = hosts[j]
              \/ \E i \in 1..Len(api) : ApiHostId(api[i]) = hosts[j] } }

\* the host ids passed to execute_shutdown_phase
ShutdownTargets(cs) ==
    { cs[i].args[1] : i \in { j \in 1..Len(cs) : cs[j].fn = "execute_shutdown_phase" } }

\* C8 (as claimed): a non-empty selection leaves the operation in awaiting_otp with the
\* selected subset, and a following valid code runs execute_shutdown_phase for exactly
\* the hosts of that subset that are still enabled
C8_SelectiveShutdownExecutesSubset ==
    [][\A u \in Users :
          (event'.type = "text" /\ event'.user = u /\ ~HasKey(pending_auth, u)
              /\ HasKey(pending_operations, u)
              /\ pending_operations[u]["operation"] = "selective_shutdown") =>
              /\ ((/\ pending_operations[u]["state"] = "awaiting_selection"
                   /\ replies' = <<"Confirm Selective Shutdown">>)
                     => (/\ OpState(pending_operations', u) = "awaiting_otp"
                         /\ pending_operations'[u]["operation"] = "selective_shutdown"
                         /\ pending_operations'[u]["selected_hosts"] # <<>>))
              /\ ((/\ pending_operations[u]["state"] = "awaiting_otp"
                   /\ verify_totp(event'.text))
                     => ShutdownTargets(calls')
                            = StillEnabled([ssh |-> ssh_hosts, api |-> api_hosts],
                                           pending_operations[u]["selected_hosts"]))]_vars

\* C9 (as claimed): an identity never has a login-flow entry and a pending operation at
\* the same time
C9_OneFlowPerIdentity ==
    \A u \in Users : ~(HasKey(pending_auth, u) /\ HasKey(pending_operations, u))

\* the pending operation a text command creates when it is sent with no flow in progress
\* and its connection test succeeds; EmptyDict when it creates none
StartedBy(u, message_text) ==
    LET r == TextCommand([Cur EXCEPT !.po = EmptyDict], u, message_text, TRUE)
    IN  IF HasKey(r.po, u) THEN r.po[u] ELSE EmptyDict

\* C10 (as claimed): an authenticated identity that starts an operation while another one
\* is pending ends with the new operation pending, whether it is started by a button or
\* by an add/remove text command
C10_LastWriteWins ==
    [][\A u \in Users :
          (/\ event'.user = u /\ IsOperator(u) /\ session[u]
           /\ HasKey(pending_operations, u) /\ ~HasKey(pending_auth, u)) =>
              /\ ((event'.type = "button" /\ event'.data = "shutdown")
                     => (/\ HasKey(pending_operations', u)
                         /\ pending_operations'[u] = [operation |-> "shutdown", state |-> "awaiting_otp"]))
              /\ ((/\ event'.type = "button" /\ event'.data = "selective_shutdown"
                   /\ StillEnabled([ssh |-> ssh_hosts, api |-> api_hosts],
                                   [i \in 1..(Len(ssh_hosts) + Len(api_hosts)) |->
                                       IF i <= Len(ssh_hosts) THEN SshHostId(ssh_hosts[i])
                                       ELSE ApiHostId(api_hosts[i - Len(ssh_hosts)])]) # {})
                     => (/\ OpState(pending_operations', u) = "awaiting_selection"
                         /\ pending_operations'[u]["operation"] = "selective_shutdown"))
              /\ ((event'.type = "text" /\ StartedBy(u, event'.text) # EmptyDict)
                     => (\/ CalledAt(calls', "test_ssh_connection", 871, FALSE)
                         \/ CalledAt(calls', "test_api_connection", 922, FALSE)
                         \/ (/\ HasKey(pending_operations', u)
                             /\ pending_operations'[u] = StartedBy(u, event'.text))))]_vars

\* a pending operation is started for u in this step: an entry appears, or the entry is
\* replaced, other than by the same selective shutdown moving from awaiting_selection to
\* awaiting_otp
OperationStarted(u) ==
    /\ HasKey(pending_operations', u)
    /\ (~HasKey(pending_operations, u) \/ pending_operations'[u] # pending_operations[u])
    /\ ~(/\ OpState(pending_operations, u) = "awaiting_selection"
         /\ pending_operations'[u]["operation"] = "selective_shutdown"
         /\ pending_operations'[u]["state"] = "awaiting_otp")

\* C11: a pending operation is started only for an identity whose session is valid at that
\* moment; a button press or add/remove text of an unauthenticated operator starts none
C11_StartedOnlyWhenAuthenticated ==
    [][\A u \in Users :
          /\ (OperationStarted(u)
                => (/\ event'.user = u
                    /\ event'.type \in {"button", "text"}
                    /\ session[u] /\ session'[u]))
          /\ ((event'.user = u /\ ~session[u] /\ event'.type \in {"button", "text"})
                => ~OperationStarted(u))]_vars

C11_Witness ==
    /\ event.type = "button"
    /\ event.data = "selective_shutdown"
    /\ OpState(pending_operations, event.user) = "awaiting_selection"
    /\ session[event.user]

SelectedSet(op) == { op["selected_hosts"][k] : k \in 1..Len(op["selected_hosts"]) }

\* C13 (as claimed): when a selected host was removed or disabled after the selection, a valid
\* code runs execute_shutdown_phase for the remaining selected hosts only, and the run is
\* reported as executed
C13_VanishedHostSkipped ==
    [][\A u \in Users :
          (/\ event'.type = "text" /\ event'.user = u
           /\ ~HasKey(pending_auth, u)
           /\ OpState(pending_operations, u) = "awaiting_otp"
           /\ pending_operations[u]["operation"] = "selective_shutdown"
           /\ verify_totp(event'.text)
           /\ StillEnabled([ssh |-> ssh_hosts, api |-> api_hosts],
                           pending_operations[u]["selected_hosts"])
                  # SelectedSet(pending_operations[u]))
             => /\ ShutdownTargets(calls')
                      = StillEnabled([ssh |-> ssh_hosts, api |-> api_hosts],
                                     pending_operations[u]["selected_hosts"])
                /\ replies' # <<>>
                /\ replies'[Len(replies')] = "SELECTIVE SHUTDOWN EXECUTED"]_vars

\* a decimal numeral: one or more digits
IsNumeral(s) ==
    /\ s # <<>>
    /\ \A k \in 1..Len(s) : s[k] \in {"0", "1", "2", "3", "4", "5", "6", "7", "8", "9"}

RECURSIVE DecimalValue(_)
DecimalValue(s) ==
    IF s = <<>> THEN 0
    ELSE 10 * DecimalValue(SubSeq(s, 1, Len(s) - 1))
         + (CHOOSE d \in 0..9 : Str(d) = <<s[Len(s)]>>)

\* the comma-separated tokens of a text: its maximal comma-free stretches
CommaTokens(text) ==
    { SubSeq(text, a, b) : <<a, b>> \in
        { ab \in (1..(Len(text) + 1)) \X (0..Len(text)) :
            /\ ab[1] <= ab[2] + 1
            /\ (ab[1] = 1 \/ text[ab[1] - 1] = ",")
            /\ (ab[2] = Len(text) \/ text[ab[2] + 1] = ",")
            /\ \A k \in ab[1]..ab[2] : text[k] # "," } }

\* token names the 1-based position i: it is the bare integer i, or a range start-end
\* with start <= i <= end
TokenSelects(token, i) ==
    LET t == Strip(token)
    IN  \/ IsNumeral(t) /\ DecimalValue(t) = i
        \/ \E p \in 1..Len(t) :
              /\ t[p] = "-"
              /\ IsNumeral(Strip(SubSeq(t, 1, p - 1)))
              /\ IsNumeral(Strip(SubSeq(t, p + 1, Len(t))))
              /\ DecimalValue(Strip(SubSeq(t, 1, p - 1))) <= i
              /\ i <= DecimalValue(Strip(SubSeq(t, p + 1, Len(t))))

\* the 0-based indices a selection names over a list of n hosts
NamedIndices(text, n) ==
    { i - 1 : i \in { j \in 1..n : \E t \in CommaTokens(text) : TokenSelects(t, j) } }

\* the literal 'all' in any letter case
IsAllLiteral(t) ==
    /\ Len(t) = 3
    /\ t[1] \in {"a", "A"} /\ t[2] \in {"l", "L"} /\ t[3] \in {"l", "L"}

\* C14: over a rendered list of n hosts, a selection other than the literal 'all' selects
\* exactly the hosts at the indices { i-1 : 1 <= i <= n, i a bare-integer token or inside
\* the inclusive range of a start-end token }; other tokens and indices are dropped
C14_SelectionParsing ==
    [][(/\ event'.type = "text"
        /\ OpState(pending_operations, Operator) = "awaiting_selection"
        /\ ~IsAllLiteral(event'.text))
          => LET host_list == pending_operations[Operator]["host_list"]
                 named == NamedIndices(event'.text, Len(host_list))
             IN  IF named = {}
                 THEN OpState(pending_operations', Operator) = "awaiting_selection"
                 ELSE /\ OpState(pending_operations', Operator) = "awaiting_otp"
                      /\ SelectedSet(pending_operations'[Operator])
                             = { host_list[i + 1] : i \in named }]_vars

C14_Witness ==
    /\ event.type = "text"
    /\ event.text = <<"1", "-", "4", ",", "7">>
    /\ Len(ssh_hosts) = 5
    /\ OpState(pending_operations, Operator) = "awaiting_otp"
    /\ SelectedSet(pending_operations[Operator])
           = { SshHostId(ssh_hosts[i]) : i \in 1..4 }

\* C15 (as claimed): a selection with a token 'all', in any letter case, selects every host
\* of the rendered list, also when 'all' is one token among others
C15_AllAsToken ==
    [][(/\ event'.type = "text"
        /\ OpState(pending_operations, Operator) = "awaiting_selection"
        /\ \E t \in CommaTokens(event'.text) : IsAllLiteral(Strip(t)))
          => LET host_list == pending_operations[Operator]["host_list"]
             IN  /\ OpState(pending_operations', Operator) = "awaiting_otp"
                 /\ SelectedSet(pending_operations'[Operator])
                        = { host_list[i] : i \in 1..Len(host_list) }]_vars

\* C16: a selection that names no host of the rendered list is rejected: the pending
\* selective shutdown stays in awaiting_selection with its host list, nothing is executed,
\* and a selective shutdown is never in awaiting_otp with an empty subset
C16_EmptySelectionRejected ==
    [][\A u \in Users :
          /\ ((/\ event'.type = "text" /\ event'.user = u
               /\ ~HasKey(pending_auth, u)
               /\ OpState(pending_operations, u) = "awaiting_selection"
               /\ pending_operations[u]["host_list"] # <<>>
               /\ ~IsAllLiteral(event'.text)
               /\ NamedIndices(event'.text, Len(pending_operations[u]["host_list"])) = {})
                 => (/\ pending_operations' = pending_operations
                     /\ replies' = <<"Invalid selection">>
                     /\ ~Executed(calls')))
          /\ ((/\ OpState(pending_operations', u) = "awaiting_otp"
               /\ pending_operations'[u]["operation"] = "selective_shutdown")
                 => pending_operations'[u]["selected_hosts"] # <<>>)]_vars

C16_Witness ==
    /\ event.type = "text"
    /\ event.text = TextNone
    /\ replies = <<"Invalid selection">>
    /\ OpState(pending_operations, event.user) = "awaiting_selection"
    /\ pending_operations[event.user]["host_list"] # <<>>

\* C17: an add-API command whose type is not a registered plugin type is answered with the
\* unknown-type error, test_api_connection is not called for it, and no pending operation
\* is created
C17_UnknownTypeRejected ==
    [][\A u \in Users :
          (event'.type = "text" /\ event'.user = u) =>
              /\ ((/\ event'.text = TextAddApiUnknown
                   /\ ~HasKey(pending_auth, u) /\ ~HasKey(pending_operations, u)
                   /\ session[u])
                     => (/\ replies' = <<"Unknown type">>
                         /\ ~Called(calls', "test_api_connection")
                         /\ pending_operations' = pending_operations))
              /\ (\A i \in 1..Len(calls') :
                     calls'[i].fn = "test_api_connection"
                        => (calls'[i].args[2] \in list_plugins /\ calls'[i].replied = 0))
              /\ (("Unknown type" \in { replies'[k] : k \in 1..Len(replies') })
                     => (/\ ~Called(calls', "test_api_connection")
                         /\ pending_operations' = pending_operations))
              /\ ((/\ OperationStarted(u)
                   /\ pending_operations'[u]["operation"] = "add_api")
                     => pending_operations'[u]["data"]["api_type"] \in list_plugins)]_vars

C17_Witness ==
    /\ event.type = "text"
    /\ event.text = TextAddApiUnknown
    /\ replies = <<"Unknown type">>
    /\ ~Called(calls, "test_api_connection")
    /\ ~HasKey(pending_operations, event.user)

\* C18: a pending add_ssh or add_api is stored only after a connection test, made with
\* exactly the fields of its payload, succeeded; a failed test stores nothing and changes
\* no other state
C18_AddOnlyAfterTest ==
    [][\A u \in Users :
          /\ ((/\ OperationStarted(u)
               /\ pending_operations'[u]["operation"] = "add_ssh")
                 => \E i \in 1..Len(calls') :
                       /\ calls'[i].fn = "test_ssh_connection" /\ calls'[i].ok
                       /\ calls'[i].args = << pending_operations'[u]["data"]["host"],
                                              pending_operations'[u]["data"]["user"] >>
                       /\ u \notin calls'[i].pending)
          /\ ((/\ OperationStarted(u)
               /\ pending_operations'[u]["operation"] = "add_api")
                 => \E i \in 1..Len(calls') :
                       /\ calls'[i].fn = "test_api_connection" /\ calls'[i].ok
                       /\ calls'[i].args = << pending_operations'[u]["data"]["host"],
                                              pending_operations'[u]["data"]["api_type"],
                                              pending_operations'[u]["data"]["api_key"],
                                              pending_operations'[u]["data"]["api_endpoint"] >>
                       /\ u \notin calls'[i].pending)
          /\ ((/\ event'.type = "text" /\ event'.user = u
               /\ \E i \in 1..Len(calls') :
                     calls'[i].fn \in {"test_ssh_connection", "test_api_connection"}
                        /\ ~calls'[i].ok)
                 => (/\ pending_operations' = pending_operations
                     /\ pending_auth' = pending_auth
                     /\ session' = session
                     /\ ssh_hosts' = ssh_hosts /\ api_hosts' = api_hosts
                     /\ replies' = <<"Connection test failed">>))]_vars

C18_Witness ==
    /\ event.type = "text"
    /\ event.text = TextAddApi
    /\ CalledAt(calls, "test_api_connection", 922, TRUE)
    /\ OpState(pending_operations, event.user) = "awaiting_otp"
    /\ pending_operations[event.user]["operation"] = "add_api"
    /\ replies = <<"Connection test successful">>

\* the position of the first reply r, 0 when it was not sent
ReplyPosition(rs, r) ==
    IF \E k \in 1..Len(rs) : rs[k] = r
    THEN CHOOSE k \in 1..Len(rs) : rs[k] = r /\ \A j \in 1..(k - 1) : rs[j] # r
    ELSE 0

\* add then probe of the new row then success reply, for one kind of host: the add call
\* precedes the probe, the probe's argument is a row of the registry after the step that
\* was not there before, and no reply was sent before the probe
AddProbeReply(cs, rs, addfn, probefn, success, before, after) ==
    \E i, j \in 1..Len(cs) :
        /\ i < j
        /\ cs[i].fn = addfn /\ cs[i].ok
        /\ cs[j].fn = probefn
        /\ \E k \in 1..Len(after) : after[k] = cs[j].args[1]
        /\ ~\E k \in 1..Len(before) : before[k] = cs[j].args[1]
        /\ ReplyPosition(rs, success) > cs[j].replied

\* C19: on a valid code for a pending add_ssh or add_api, the host is added, then the
\* monitor probe runs on the new registry row, then the success reply is sent; no probe
\* runs when the add failed
C19_AddThenProbeThenReply ==
    [][\A u \in Users :
          (/\ event'.type = "text" /\ event'.user = u
           /\ ~HasKey(pending_auth, u)
           /\ OpState(pending_operations, u) = "awaiting_otp"
           /\ verify_totp(event'.text))
             => /\ ((/\ pending_operations[u]["operation"] = "add_ssh"
                     /\ CalledAt(calls', "add_ssh_host", 798, TRUE))
                       => AddProbeReply(calls', replies', "add_ssh_host", "monitor_ssh_host",
                                        "SSH host added", ssh_hosts, ssh_hosts'))
                /\ ((/\ pending_operations[u]["operation"] = "add_api"
                     /\ CalledAt(calls', "add_api_host", 814, TRUE))
                       => AddProbeReply(calls', replies', "add_api_host", "monitor_api_host",
                                        "API host added", api_hosts, api_hosts'))
                /\ (pending_operations[u]["operation"] \in {"add_ssh", "add_api"}
                       => (Called(calls', "add_ssh_host") \/ Called(calls', "add_api_host")))
                /\ ((\/ CalledAt(calls', "add_ssh_host", 798, FALSE)
                     \/ CalledAt(calls', "add_api_host", 814, FALSE))
                       => (/\ ~Called(calls', "monitor_ssh_host")
                           /\ ~Called(calls', "monitor_api_host")))]_vars

C19_Witness ==
    /\ event.type = "text"
    /\ AddProbeReply(calls, replies, "add_ssh_host", "monitor_ssh_host", "SSH host added",
                     <<>>, ssh_hosts)
    /\ ~HasKey(pending_operations, event.user)

\* the registry has a shell host with this key / an API host with this name
HasSshKey(rows, host, user) == \E k \in 1..Len(rows) : rows[k].host = host /\ rows[k].user = user

HasApiHost(rows, host) == \E k \in 1..Len(rows) : rows[k].host = host

\* C20: a confirmed add of a host whose key is already registered and a confirmed remove of
\* a host that is not registered are answered with a failure, leave the registry as it
\* was and leave no pending operation
C20_ConflictAndNotFound ==
    [][\A u \in Users :
          (/\ event'.type = "text" /\ event'.user = u
           /\ ~HasKey(pending_auth, u)
           /\ OpState(pending_operations, u) = "awaiting_otp"
           /\ verify_totp(event'.text))
             => LET op == pending_operations[u]
                    unchanged == /\ ssh_hosts' = ssh_hosts /\ api_hosts' = api_hosts
                                 /\ ~HasKey(pending_operations', u)
                IN  /\ ((/\ op["operation"] = "add_ssh"
                         /\ HasSshKey(ssh_hosts, op["data"]["host"], op["data"]["user"]))
                           => (/\ replies' = <<"Failed to add host (may already exist)">>
                               /\ unchanged))
                    /\ ((/\ op["operation"] = "add_api"
                         /\ HasApiHost(api_hosts, op["data"]["host"]))
                           => (/\ replies' = <<"Failed to add host (may already exist)">>
                               /\ unchanged))
                    /\ ((/\ op["operation"] = "remove_ssh"
                         /\ ~HasSshKey(ssh_hosts, op["data"]["host"], op["data"]["user"]))
                           => (replies' = <<"Host not found">> /\ unchanged))
                    /\ ((/\ op["operation"] = "remove_api"
                         /\ ~HasApiHost(api_hosts, op["data"]["host"]))
                           => (replies' = <<"Host not found">> /\ unchanged))]_vars

C20_Witness ==
    /\ event.type = "text"
    /\ CalledAt(calls, "delete_ssh_host", 830, FALSE)
    /\ replies = <<"Host not found">>
    /\ ~HasKey(pending_operations, event.user)

\* the outcome entries of a result, over all phases: <<phase index, entry index>>
Entries(results) ==
    { pe \in (1..Len(results)) \X (1..(MaxEntries + 1)) : pe[2] <= Len(results[pe[1]].hosts) }

\* C21: in the summary of a shutdown, total_count is the number of outcome entries over all
\* phases and success_count the number of entries with status shutdown_initiated, executed
\* or timeout; every other status does not count, and success_count <= total_count
C21_SummaryCounts ==
    summary.sent =>
        \E i \in 1..Len(calls) :
            /\ calls[i].fn \in {"initiate_hard_poweroff"}
            /\ summary.total_hosts = Cardinality(Entries(calls[i].result))
            /\ summary.success_count
                   = Cardinality({ pe \in Entries(calls[i].result) :
                                     calls[i].result[pe[1]].hosts[pe[2]]
                                        \in {"shutdown_initiated", "executed", "timeout"} })
            /\ summary.success_count <= summary.total_hosts

C21_Witness ==
    /\ summary.sent
    /\ summary.success_count = 2 /\ summary.total_hosts = 3
    /\ \E i \in 1..Len(calls) :
          /\ calls[i].fn = "initiate_hard_poweroff"
          /\ calls[i].result = << [phase |-> "ssh", hosts |-> <<"timeout", "executed">>],
                                  [phase |-> "api", hosts |-> <<"failed">>] >>

C23_FaultIsReported ==
    /\ exception # "escaped"
    /\ (exception = "handled" => replies # <<>> /\ replies[Len(replies)] = "Error")

\* this step resumes the i-th suspended invocation
ResumedAt(i) ==
    /\ event'.type = "resume"
    /\ event'.user = inflight[i].user /\ event'.data = inflight[i].kind
    /\ Len(inflight') >= Len(inflight) - 1
    /\ SubSeq(inflight', 1, Len(inflight) - 1)
           = SubSeq(inflight, 1, i - 1) \o SubSeq(inflight, i + 1, Len(inflight))

C27_ExecutedOnce ==
    [][/\ (Executed(calls')
             => \E i \in 1..Len(inflight) :
                   /\ ResumedAt(i)
                   /\ inflight[i].kind = "execute"
                   /\ Len(inflight') = Len(inflight) - 1
                   /\ \A j \in 1..Len(calls') :
                         calls'[j].fn \in ExecFns
                            => OperationOf(calls'[j].fn) = inflight[i].op["operation"])
       /\ ((/\ Len(inflight') = Len(inflight) + 1
            /\ inflight'[Len(inflight')].kind = "execute")
             => LET k == inflight'[Len(inflight')]
                IN  /\ event'.type = "text" /\ event'.user = k.user
                    /\ CalledAt(calls', "verify_totp", 658, TRUE)
                    /\ HasKey(pending_operations, k.user)
                    /\ pending_operations[k.user] = k.op
                    /\ ~HasKey(pending_operations', k.user))
       /\ ((event'.type = "text" /\ CalledAt(calls', "verify_totp", 658, TRUE))
             => (/\ Len(inflight') = Len(inflight) + 1
                 /\ inflight'[Len(inflight')].kind = "execute"))]_vars

\* a second valid code is handled while the invocation that verified the first one is
\* suspended: it finds no pending operation
C27_Witness ==
    /\ event.type = "text" /\ event.text = TextTotp
    /\ ~CalledAt(calls, "verify_totp", 658, TRUE)
    /\ \E i \in 1..Len(inflight) :
          /\ inflight[i].kind = "execute" /\ inflight[i].user = event.user
          /\ inflight[i].op["operation"] = "shutdown"
    /\ ~HasKey(pending_operations, event.user)

\* C25: a notification never passes a failure on to its caller and leaves the flow state
\* alone; with the sink not configured it does nothing, and a failed delivery is logged
C25_NotificationContained ==
    [][event'.type = "notify" =>
          /\ exception' = "none"
          /\ pending_auth' = pending_auth
          /\ pending_operations' = pending_operations
          /\ session' = session
          /\ replies' = <<>>
          /\ (event'.text[1] = "unconfigured" => calls' = <<>>)
          /\ (event'.text[1] = "configured"
                => /\ Len(calls') >= 1
                   /\ calls'[1].fn = "send_message"
                   /\ calls'[1].ok = (event'.text[2] = "delivered")
                   /\ (event'.text[2] = "failed" <=> Called(calls', "logger.error")))]_vars

\* a delivery failed while a login flow and a pending operation were in progress
C25_Witness ==
    /\ event.type = "notify" /\ event.text = <<"configured", "failed">>
    /\ Called(calls, "logger.error")
    /\ HasKey(pending_operations, Operator)
    /\ HasKey(pending_auth, Operator)

\* the enabled hosts as the operator sees them numbered: shell hosts first, in registry order
Enumeration(ssh, api) ==
    LET es == SelectSeq(ssh, LAMBDA h : h.enabled)
        ea == SelectSeq(api, LAMBDA h : h.enabled)
    IN  [k \in 1..(Len(es) + Len(ea)) |->
            IF k <= Len(es) THEN SshHostId(es[k]) ELSE ApiHostId(ea[k - Len(es)])]

\* the positions 1..n a selection text names
SelectedPositions(text, n) ==
    IF IsAllLiteral(Strip(text)) THEN 1..n
    ELSE { i + 1 : i \in NamedIndices(text, n) }

\* C26: the list stored when the selective-shutdown flow starts (the host list is rendered)
\* is the enabled shell hosts followed by the enabled API hosts, and position k of a later selection is the k-th id of
\* that stored list, whatever the registry holds by then
C26_IndexResolvesInStoredList ==
    [][/\ (/\ event'.type = "button" /\ event'.data = "selective_shutdown"
           /\ replies' = <<"Selective Shutdown">>)
             => pending_operations'[Operator]["host_list"] = Enumeration(ssh_hosts, api_hosts)
       /\ (/\ event'.type = "text"
           /\ OpState(pending_operations, Operator) = "awaiting_selection"
           /\ OpState(pending_operations', Operator) = "awaiting_otp")
             => LET host_list == pending_operations[Operator]["host_list"]
                IN  /\ SelectedPositions(event'.text, Len(host_list)) # {}
                    /\ SelectedSet(pending_operations'[Operator])
                          = { host_list[k] : k \in SelectedPositions(event'.text, Len(host_list)) }]_vars

\* position 3 was selected and accepted after the registry had changed: the host stored is
\* not the third of the enumeration at the time of the selection
C26_Witness ==
    /\ event.type = "text" /\ event.text = <<"3">>
    /\ OpState(pending_operations, Operator) = "awaiting_otp"
    /\ pending_operations[Operator]["operation"] = "selective_shutdown"
    /\ LET now == Enumeration(ssh_hosts, api_hosts)
       IN  Len(now) >= 3 /\ pending_operations[Operator]["selected_hosts"] # <<now[3]>>

\* C28: a text message of an identity that has a login-flow entry is handled by the login
\* flow alone: the pending operations stay as they are, no code is checked against a pending
\* operation, nothing is executed and the registry is not changed
C28_LoginFlowConsumesText ==
    [][\A u \in Users :
          (event'.type = "text" /\ event'.user = u /\ HasKey(pending_auth, u))
             => /\ pending_operations' = pending_operations
                /\ ~Executed(calls')
                /\ ~Called(calls', "initiate_hard_poweroff")
                /\ \A i \in 1..Len(calls') :
                      calls'[i].fn \in {"verify_static_token_value", "verify_totp",
                                        "add_telegram_session"}
                         /\ calls'[i].line \in 527..579
                /\ ssh_hosts' = ssh_hosts /\ api_hosts' = api_hosts
                /\ summary' = NoSummary]_vars

\* the login flow accepted a valid one-time code while a shutdown was awaiting its code,
\* and the shutdown is still pending
C28_Witness ==
    /\ event.type = "text" /\ event.text = TextTotp
    /\ CalledAt(calls, "verify_totp", 559, TRUE)
    /\ OpState(pending_operations, Operator) = "awaiting_otp"
    /\ pending_operations[Operator]["operation"] = "shutdown"

\* C29: when an identity with a valid session is in a login flow and its secret or its
\* code is rejected, the login-flow entry of that identity is removed and nothing else
\* changes: the session stays valid
C29_FailedLoginKeepsSession ==
    [][\A u \in Users :
          (/\ event'.type = "text" /\ event'.user = u
           /\ HasKey(pending_auth, u) /\ session[u]
           /\ \/ CalledAt(calls', "verify_static_token_value", 534, FALSE)
              \/ CalledAt(calls', "verify_totp", 559, FALSE))
             => /\ session' = session
                /\ pending_auth' = Del(pending_auth, u)
                /\ pending_operations' = pending_operations
                /\ ~Called(calls', "add_telegram_session")]_vars

\* the code of a second login was rejected and the session is still valid
C29_Witness ==
    /\ event.type = "text" /\ event.user = Operator
    /\ CalledAt(calls, "verify_totp", 559, FALSE)
    /\ ~HasKey(pending_auth, Operator)
    /\ session[Operator]

\* C30 (as claimed): the hosts stored by an accepted selection hold each host id at most
\* once, whatever the selection text
C30_SelectedHostsDistinct ==
    \A u \in Users :
        (/\ OpState(pending_operations, u) = "awaiting_otp"
         /\ pending_operations[u]["operation"] = "selective_shutdown")
           => LET hosts == pending_operations[u]["selected_hosts"]
              IN  \A i, j \in 1..Len(hosts) : hosts[i] = hosts[j] => i = j

\* the positions of the colons of a text
Colons(t) == { k \in 1..Len(t) : t[k] = ":" }

\* the text starts with one of the prefixes of the add commands
HasAddPrefix(t) ==
    /\ Len(t) >= 4
    /\ SubSeq(t, 1, 4) \in { <<"s", "s", "h", ":">>, <<"a", "p", "i", ":">>, <<"a", "p", "i", "|">> }

\* C31: for the authenticated operator with no flow in progress, a text (as the handler
\* reads it, without surrounding blanks) that starts with none of 'ssh:', 'api:', 'api|'
\* creates a pending remove_ssh exactly when it has one colon (two segments: host, user),
\* a pending remove_api exactly when it has no colon and more than 3 characters, and
\* nothing otherwise; the registry is neither asked nor changed
C31_RemoveCommandParsing ==
    [][(/\ event'.type = "text" /\ event'.user = Operator
        /\ session[Operator]
        /\ ~HasKey(pending_auth, Operator) /\ ~HasKey(pending_operations, Operator)
        /\ ~HasAddPrefix(event'.text))
          => LET t == event'.text
             IN  /\ calls' = <<>>
                 /\ ssh_hosts' = ssh_hosts /\ api_hosts' = api_hosts
                 /\ pending_auth' = pending_auth
                 /\ IF Cardinality(Colons(t)) = 1
                    THEN LET c == CHOOSE k \in Colons(t) : TRUE
                         IN  pending_operations'
                                = Put(pending_operations, Operator,
                                      [operation |-> "remove_ssh", state |-> "awaiting_otp",
                                       data |-> [host |-> SubSeq(t, 1, c - 1),
                                                 user |-> SubSeq(t, c + 1, Len(t))]])
                    ELSE IF Colons(t) = {} /\ Len(t) > 3
                    THEN pending_operations'
                            = Put(pending_operations, Operator,
                                  [operation |-> "remove_api", state |-> "awaiting_otp",
                                   data |-> [host |-> t]])
                    ELSE pending_operations' = pending_operations]_vars

\* a remove_ssh is pending for a (host, user) pair that the registry does not hold
C31_Witness ==
    /\ event.type = "text" /\ event.text = <<"h", ":", "1">>
    /\ OpState(pending_operations, Operator) = "awaiting_otp"
    /\ pending_operations[Operator]["operation"] = "remove_ssh"
    /\ ~HasSshKey(ssh_hosts, <<"h">>, <<"1">>)

\* C32: every login-flow entry is awaiting_token or awaiting_otp; every pending operation
\* is in state awaiting_selection or awaiting_otp; awaiting_selection belongs to a
\* selective_shutdown with a non-empty host list; a selective_shutdown in awaiting_otp
\* carries a non-empty selection
C32_FlowStateShape ==
    \A u \in Users :
        /\ HasKey(pending_auth, u) => pending_auth[u] \in {"awaiting_token", "awaiting_otp"}
        /\ HasKey(pending_operations, u)
             => LET op == pending_operations[u]
                IN  /\ op["state"] \in {"awaiting_selection", "awaiting_otp"}
                    /\ op["state"] = "awaiting_selection"
                         => /\ op["operation"] = "selective_shutdown"
                            /\ "host_list" \in DOMAIN op
                            /\ op["host_list"] # <<>>
                    /\ (op["operation"] = "selective_shutdown" /\ op["state"] = "awaiting_otp")
                         => /\ "selected_hosts" \in DOMAIN op
                            /\ op["selected_hosts"] # <<>>

\* a selective shutdown with its selection and a login flow of the same identity both
\* await a code
C32_Witness ==
    /\ HasKey(pending_auth, Operator) /\ pending_auth[Operator] = "awaiting_otp"
    /\ OpState(pending_operations, Operator) = "awaiting_otp"
    /\ pending_operations[Operator]["operation"] = "selective_shutdown"
    /\ Len(pending_operations[Operator]["selected_hosts"]) >= 1

====
